---- MODULE Spec2Model ----
(***************************************************************************)
(* storyliner: the story aggregate (SlModel), its entity collections and   *)
(* the project tree it keeps in step with them.                            *)
(*                                                                         *)
(* Identifiers are modelled as pairs <<prefix, n>>: 'ac1' is <<"ac", 1>>;  *)
(* the roots 'rtac', 'rtcr' and 'rtbk' are <<"rt", 1>>, <<"rt", 2>> and    *)
(* <<"rt", 3>>.  The prefix tests of the code (startswith, node[:2]) read  *)
(* the first component.  The empty string '' is EMPTY, None is NONE.       *)
(*                                                                         *)
(* The tree object SlModel works on is the SlTreeview the controller wires *)
(* in (sl_controller.py line 69, tree_viewer.py line 59).  Its module is   *)
(* not part of the sources at hand, so the tree_* operators follow the     *)
(* ttk.Treeview interface that sl_tree.py documents and the Tree Index     *)
(* contract of the specification (section 4.2): an operation on an item    *)
(* that is not in the tree raises an error, and every change of the tree   *)
(* reports to on_element_change (sl_model.py line 307).                    *)
(*                                                                         *)
(* story.py declares the arc and turning point dictionaries as plotLines   *)
(* and plotPoints; SlModel, StlxFile and the controller address them as    *)
(* story.arcs and story.turningPoints.  The model follows the accessors.   *)
(***************************************************************************)
EXTENDS Integers, Sequences, FiniteSets, TLC

\* ------------------------------------------------------------------------
\* Bounds of the model
\* ------------------------------------------------------------------------
\* Spec and SpecIds take an add_* call while the project holds fewer
\* entities than this
MaxEntities == 3

\* SpecPlot takes an add_* call while the project holds fewer arcs and
\* turning points than this
MaxPlot == 4

\* SpecLife takes an add_* call while the project holds fewer than MaxLife
\* entities, SpecSave an add_book call while it holds fewer books
MaxLife == 1

\* SpecVersion reads version attributes with the numbers -1 to MaxVersion
MaxVersion == 2

\* SpecLife takes a description other than '' while fewer than MaxDescribed
\* other descriptions of the project are not ''
MaxDescribed == 1

\* SpecRead reads turning points with up to MaxIds entries in their ids
MaxIds == 4

\* SpecBackup and SpecStamp stop writing and touching the file when its
\* modification time has reached MaxClock; a write sets the time twice
MaxClock == 6

\* SpecSave takes a call while its writes leave the modification time of
\* the file at MaxSaveClock or below; a write sets the time twice
MaxSaveClock == 4

\* SpecBackup adds books between the writes while there are fewer than this
MaxBooks == 2

\* the suffixes of the IDs the model can meet
MaxSuffix == MaxEntities + MaxPlot

\* ------------------------------------------------------------------------
\* storyliner_globals.py: prefixes and roots
\* ------------------------------------------------------------------------
ROOT_PREFIX == "rt"

BOOK_PREFIX == "bk"

ARC_PREFIX == "ac"

ARC_POINT_PREFIX == "ap"

CHARACTER_PREFIX == "cr"

AC_ROOT == <<ROOT_PREFIX, 1>>

CR_ROOT == <<ROOT_PREFIX, 2>>

BK_ROOT == <<ROOT_PREFIX, 3>>

Roots == {AC_ROOT, BK_ROOT, CR_ROOT}

\* '' (the default targetNode, and the parent of a root)
EMPTY == <<"", 0>>

\* Python's None
NONE == <<"None", 0>>

\* the outcome of a call that raised an exception
ERROR == <<"Error", 0>>

\* the index sentinel 'end'
END == -1

\* str.startswith(prefix) and node[:2] on the pair encoding
startswith(id, prefix) == id[1] = prefix

ArcIds == {<<ARC_PREFIX, i>> : i \in 1..MaxSuffix}

PointIds == {<<ARC_POINT_PREFIX, i>> : i \in 1..MaxSuffix}

CharacterIds == {<<CHARACTER_PREFIX, i>> : i \in 1..MaxSuffix}

BookIds == {<<BOOK_PREFIX, i>> : i \in 1..MaxSuffix}

EntityIds == ArcIds \cup PointIds \cup CharacterIds \cup BookIds

\* ------------------------------------------------------------------------
\* Python list helpers (0-based indices)
\* ------------------------------------------------------------------------
Range(s) == {s[i] : i \in 1..Len(s)}

\* list.index(x) for x in s
IndexOf(s, x) == (CHOOSE i \in 1..Len(s) : s[i] = x) - 1

\* s without its first occurrence of x (list.remove)
Remove(s, x) ==
    LET k == IndexOf(s, x) + 1
    IN  SubSeq(s, 1, k - 1) \o SubSeq(s, k + 1, Len(s))

\* insertion at a 0-based position; 'end' and positions past the end append,
\* positions below zero insert at the front
InsertAt(s, index, x) ==
    LET k == IF index = END \/ index > Len(s) THEN Len(s)
             ELSE IF index < 0 THEN 0 ELSE index
    IN  SubSeq(s, 1, k) \o <<x>> \o SubSeq(s, k + 1, Len(s))

\* ------------------------------------------------------------------------
\* id_generator.create_id: the first prefix+i, i = 1, 2, ..., that is not a key
\* ------------------------------------------------------------------------
create_id(elements, prefix) ==
    LET i == CHOOSE n \in 1..(Cardinality(elements) + 1) :
                 /\ <<prefix, n>> \notin elements
                 /\ \A m \in 1..(n - 1) : <<prefix, m>> \in elements
    IN  <<prefix, i>>

\* ------------------------------------------------------------------------
\* The project tree: a function from each parent to the ordered list of its
\* children.  The three roots are always in its domain, another item is in
\* it while it has children.  The operators follow the ttk.Treeview
\* interface as sl_tree.py documents it.
\* ------------------------------------------------------------------------
TreeItems(t) == Roots \cup UNION {Range(t[p]) : p \in DOMAIN t}

tree_exists(t, item) == item \in TreeItems(t)

get_children(t, item) == IF item \in DOMAIN t THEN t[item] ELSE <<>>

\* the tree with the children of one item replaced
set_children(t, item, newchildren) ==
    LET parents == (DOMAIN t \ {item}) \cup
                   (IF item \in Roots \/ newchildren # <<>> THEN {item} ELSE {})
    IN  [p \in parents |-> IF p = item THEN newchildren ELSE t[p]]

\* parent of an item of the tree; '' for a root
tree_parent(t, item) ==
    IF item \in Roots THEN EMPTY
    ELSE CHOOSE p \in DOMAIN t : item \in Range(t[p])

\* position of an item among its siblings
tree_index(t, item) ==
    IF item \in Roots THEN 0
    ELSE IndexOf(t[tree_parent(t, item)], item)

\* previous sibling, '' for a first child
tree_prev(t, item) ==
    IF item \in Roots \/ tree_index(t, item) = 0 THEN EMPTY
    ELSE t[tree_parent(t, item)][tree_index(t, item)]

\* insert raises unless the parent is in the tree and iid is new
tree_insert_ok(t, parent, iid) ==
    /\ tree_exists(t, parent)
    /\ ~tree_exists(t, iid)

tree_insert(t, parent, index, iid) ==
    set_children(t, parent, InsertAt(get_children(t, parent), index, iid))

tree_append(t, parent, iid) == tree_insert(t, parent, END, iid)

\* the items below an item (the tree is two levels deep below the roots)
tree_descendants(t, item) ==
    LET children == Range(get_children(t, item))
    IN  children \cup UNION {Range(get_children(t, c)) : c \in children}

\* delete an item (not a root) together with its descendants
tree_delete(t, item) ==
    LET p == tree_parent(t, item)
        t1 == set_children(t, p, Remove(t[p], item))
    IN  [q \in DOMAIN t1 \ ({item} \cup tree_descendants(t, item)) |-> t1[q]]

\* move raises for an item or a parent that is not in the tree, and for a
\* parent that is the item itself or one of its descendants
tree_move_legal(t, item, parent) ==
    /\ tree_exists(t, item)
    /\ item \notin Roots
    /\ tree_exists(t, parent)
    /\ parent \notin {item} \cup tree_descendants(t, item)

\* detach the item, then insert it at index in the new parent's list
tree_move(t, item, parent, index) ==
    LET p == tree_parent(t, item)
        t1 == set_children(t, p, Remove(t[p], item))
    IN  set_children(t1, parent, InsertAt(get_children(t1, parent), index, item))

tree_reset == [p \in Roots |-> <<>>]

\* ------------------------------------------------------------------------
\* Project documents (.stlx) as the reader sees them: the BOOKS, ARCS (each
\* with its POINTs) and CHARACTERS in document order; ids is the list of
\* tokens of a POINT's Books/@ids attribute.
\* ------------------------------------------------------------------------
bk1 == <<BOOK_PREFIX, 1>>

bk2 == <<BOOK_PREFIX, 2>>

bk3 == <<BOOK_PREFIX, 3>>

ac1 == <<ARC_PREFIX, 1>>

ac2 == <<ARC_PREFIX, 2>>

ap1 == <<ARC_POINT_PREFIX, 1>>

ap2 == <<ARC_POINT_PREFIX, 2>>

cr1 == <<CHARACTER_PREFIX, 1>>

cr2 == <<CHARACTER_PREFIX, 2>>

EmptyDocument == [books |-> <<>>, arcs |-> <<>>, characters |-> <<>>]

Documents ==
    { EmptyDocument,
      [books |-> <<bk1, bk2, bk3>>,
       arcs |-> << [id |-> ac1,
                    points |-> << [id |-> ap1, ids |-> <<bk3, bk1, bk2>>],
                                  [id |-> ap2, ids |-> <<bk1, EMPTY, bk1>>] >>] >>,
       characters |-> <<>>] }

\* a project with two of each kind and a third turning point, for the moves
ap3 == <<ARC_POINT_PREFIX, 3>>

MoveDocument ==
    [books |-> <<bk1, bk2>>,
     arcs |-> << [id |-> ac1,
                  points |-> << [id |-> ap1, ids |-> <<bk1>>],
                                [id |-> ap2, ids |-> <<>>] >>],
                 [id |-> ac2,
                  points |-> << [id |-> ap3, ids |-> <<bk2>>] >>] >>,
     characters |-> <<cr1, cr2>>]

\* a turning point record: _books is None (booksIsNone) or a list of book IDs
TurningPoint(isNone, bookList) == [booksIsNone |-> isNone, books |-> bookList]

\* storyliner_globals.string_to_list on the tokens of a split text: empty
\* tokens and repetitions are dropped, the order of the first occurrences stays
RECURSIVE string_to_list(_)
string_to_list(tokens) ==
    IF tokens = <<>> THEN <<>>
    ELSE LET front == string_to_list(SubSeq(tokens, 1, Len(tokens) - 1))
             element == tokens[Len(tokens)]
         IN  IF element # EMPTY /\ element \notin Range(front)
             THEN Append(front, element) ELSE front

\* variant: every ID of the list is kept
valid_books_unchecked(bkIds, storyBooks) == bkIds

\* the book IDs a POINT refers to, as _read_arcs keeps them
RECURSIVE valid_books(_, _)
valid_books(bkIds, storyBooks) ==
    IF bkIds = <<>> THEN <<>>
    ELSE LET front == valid_books(SubSeq(bkIds, 1, Len(bkIds) - 1), storyBooks)
             bkId == bkIds[Len(bkIds)]
         IN  IF bkId # EMPTY /\ bkId \in storyBooks
             THEN Append(front, bkId) ELSE front

\* the aggregate a reader fills: the tree and the four collections
EmptyStory ==
    [tree |-> tree_reset, arcs |-> {},
     turningPoints |-> [tp \in {} |-> TurningPoint(TRUE, <<>>)],
     characters |-> {}, books |-> {}]

RECURSIVE read_books(_, _)
read_books(xmlBooks, st) ==
    IF xmlBooks = <<>> THEN st
    ELSE LET s1 == read_books(SubSeq(xmlBooks, 1, Len(xmlBooks) - 1), st)
             bkId == xmlBooks[Len(xmlBooks)]
         IN  [s1 EXCEPT !.books = @ \cup {bkId},
                        !.tree = tree_append(@, BK_ROOT, bkId)]

RECURSIVE read_points(_, _, _)
read_points(xmlPoints, acId, st) ==
    IF xmlPoints = <<>> THEN st
    ELSE LET s1 == read_points(SubSeq(xmlPoints, 1, Len(xmlPoints) - 1), acId, st)
             xmlPoint == xmlPoints[Len(xmlPoints)]
             tpBooks == valid_books(string_to_list(xmlPoint.ids), s1.books)
         IN  [s1 EXCEPT !.turningPoints =
                            [tp \in DOMAIN @ \cup {xmlPoint.id} |->
                                IF tp = xmlPoint.id
                                THEN TurningPoint(FALSE, tpBooks) ELSE @[tp]],
                        !.tree = tree_append(@, acId, xmlPoint.id)]

RECURSIVE read_arcs(_, _)
read_arcs(xmlArcs, st) ==
    IF xmlArcs = <<>> THEN st
    ELSE LET s1 == read_arcs(SubSeq(xmlArcs, 1, Len(xmlArcs) - 1), st)
             xmlArc == xmlArcs[Len(xmlArcs)]
             s2 == [s1 EXCEPT !.arcs = @ \cup {xmlArc.id},
                              !.tree = tree_append(@, AC_ROOT, xmlArc.id)]
         IN  read_points(xmlArc.points, xmlArc.id, s2)

RECURSIVE read_characters(_, _)
read_characters(xmlCharacters, st) ==
    IF xmlCharacters = <<>> THEN st
    ELSE LET s1 == read_characters(SubSeq(xmlCharacters, 1, Len(xmlCharacters) - 1), st)
             crId == xmlCharacters[Len(xmlCharacters)]
         IN  [s1 EXCEPT !.characters = @ \cup {crId},
                        !.tree = tree_append(@, CR_ROOT, crId)]

\* StlxFile.read after the version check: reset the tree, then books, arcs
\* with their points, characters
read(doc) ==
    read_characters(doc.characters,
        read_arcs(doc.arcs, read_books(doc.books, EmptyStory)))

\* ------------------------------------------------------------------------
\* StlxFile.write: the document _build_element_tree builds from the tree
\* ------------------------------------------------------------------------
\* the Books element of a POINT: list_to_string joins the IDs of a books
\* list that is not empty; there is no element for None and for []
build_turningPoint_branch(tpId, prjTurningPoint) ==
    [id |-> tpId,
     ids |-> IF prjTurningPoint.booksIsNone THEN <<>> ELSE prjTurningPoint.books]

\* an ARC with the POINTs of the arc's children in the tree
build_arc_branch(st, acId) ==
    LET children == get_children(st.tree, acId)
    IN  [id |-> acId,
         points |-> [i \in 1..Len(children) |->
                        build_turningPoint_branch(children[i],
                                                  st.turningPoints[children[i]])]]

\* the walk looks up every ID of the tree in its collection: a KeyError
\* for an ID without entity
build_element_tree_raises(st) ==
    \/ ~(Range(get_children(st.tree, AC_ROOT)) \subseteq st.arcs)
    \/ \E acId \in Range(get_children(st.tree, AC_ROOT)) :
           ~(Range(get_children(st.tree, acId)) \subseteq DOMAIN st.turningPoints)
    \/ ~(Range(get_children(st.tree, CR_ROOT)) \subseteq st.characters)
    \/ ~(Range(get_children(st.tree, BK_ROOT)) \subseteq st.books)

\* ARCS, CHARACTERS and BOOKS in the order of the tree
build_element_tree(st) ==
    LET acIds == get_children(st.tree, AC_ROOT)
    IN  [books |-> get_children(st.tree, BK_ROOT),
         arcs |-> [i \in 1..Len(acIds) |-> build_arc_branch(st, acIds[i])],
         characters |-> get_children(st.tree, CR_ROOT)]

\* ------------------------------------------------------------------------
\* The project file and the observers
\* ------------------------------------------------------------------------
\* SlWorkFile(''): File.filePath takes only a path with the extension .stlx,
\* so the project file of a new project has the filePath None
Unnamed == <<"SlWorkFile", 0>>

\* a project file with a path
Named == <<"SlWorkFile", 1>>

\* the objects that may register as clients of the model
Observers == {"o1", "o2", "o3"}

\* the story as the subject of a field change, beside the entities
STORY == <<"story", 0>>

\* no file operation is looked at on its own
NoProbe == [kind |-> "none", input |-> NONE, output |-> NONE, done |-> FALSE]

\* what a path holds: nothing, or a document in one of three forms: "stlx",
\* the document under its header; "xml", the document as ElementTree wrote
\* it; "partial", a file opened for writing whose text is not complete
Content(form, doc) == [form |-> form, doc |-> doc]

NoFile == Content("none", EmptyDocument)

\* the exceptions of a write: none, Error of storyliner_globals, OSError
NoException == "None"

\* the disk before a project file exists, and a writer at rest: file and bak
\* are the contents at the path and at its .bak sibling, mtime the
\* modification time of the file, timestamp the one SlWorkFile remembers;
\* pc, doc, backedUp and exc are the position of write, the document it
\* writes, its local flag and the exception it ended with; before and
\* saved are history: the file when write began, and whether a write has
\* ever come to its end
NoDisk ==
    [file |-> NoFile, bak |-> NoFile, mtime |-> 0, timestamp |-> NONE,
     pc |-> "idle", doc |-> EmptyDocument, backedUp |-> FALSE,
     exc |-> NoException, before |-> NoFile, saved |-> FALSE]

\* ------------------------------------------------------------------------
\* State of the aggregate
\* ------------------------------------------------------------------------
VARIABLES
    tree,           \* SlModel.tree: parent -> ordered children
    arcs,           \* keys of story.arcs
    turningPoints,  \* story.turningPoints: ID -> turning point record
    characters,     \* keys of story.characters
    books,          \* keys of story.books
    isModified,     \* SlModel._internalModificationFlag
    issued,         \* history: every ID an entity of this session has held
    last,           \* history: the latest call, its arguments and its result
    prjFile,        \* SlModel.prjFile: None, or the project file and its path
    clients,        \* SlModel._clients: the registered observers, in order
    refreshed,      \* history: refresh() calls per observer in the latest call
    unhooked,       \* the entities whose on_element_change is do_nothing
    described,      \* the entities (and the story) whose desc is not ''
    probe,          \* a file operation on its own: its input and its outcome
    disk            \* the project file and its .bak on disk, and the writer

vars ==
    <<tree, arcs, turningPoints, characters, books, isModified, issued, last,
      prjFile, clients, refreshed, unhooked, described, probe, disk>>

\* what add_*, delete_element and move_node leave alone while no observer
\* is registered and no description has been edited
session == <<prjFile, clients, refreshed, unhooked, described, probe, disk>>

\* the story and the tree of the aggregate as the project file sees them
Story ==
    [tree |-> tree, arcs |-> arcs, turningPoints |-> turningPoints,
     characters |-> characters, books |-> books]

EntityCount ==
    Cardinality(arcs) + Cardinality(DOMAIN turningPoints)
        + Cardinality(characters) + Cardinality(books)

\* a call as the history keeps it; before is the number of keys when it began
Call(op, node, target, result) ==
    [op |-> op, node |-> node, target |-> target, result |-> result,
     before |-> EntityCount]

\* an open, unmodified project read from one of the documents
InitFrom(documents) ==
    \E doc \in documents :
        LET st == read(doc)
        IN  /\ tree = st.tree
            /\ arcs = st.arcs
            /\ turningPoints = st.turningPoints
            /\ characters = st.characters
            /\ books = st.books
            /\ isModified = FALSE
            /\ issued = st.arcs \cup DOMAIN st.turningPoints
                          \cup st.characters \cup st.books
            /\ last = Call("open_project", EMPTY, EMPTY, NONE)
            /\ prjFile = Named
            /\ clients = <<>>
            /\ refreshed = [c \in Observers |-> 0]
            /\ unhooked = {}
            /\ described = {}
            /\ disk = NoDisk
            /\ probe = NoProbe

\* an open, unmodified project: a new one, or one read from a document
Init == InitFrom(Documents)

\* the call raised before it changed anything
Raise(op, node, target) ==
    /\ last' = Call(op, node, target, ERROR)
    /\ UNCHANGED <<tree, arcs, turningPoints, characters, books, isModified>>

\* the call returned None without changing anything
Return(op, node, target) ==
    /\ last' = Call(op, node, target, NONE)
    /\ UNCHANGED <<tree, arcs, turningPoints, characters, books, isModified>>

\* ------------------------------------------------------------------------
\* SlModel.add_arc, add_character, add_book
\* ------------------------------------------------------------------------
\* the position computed from targetNode: behind a target of the same kind,
\* 'end' otherwise
add_arc_index(targetNode) ==
    IF startswith(targetNode, ARC_PREFIX)
    THEN tree_index(tree, targetNode) + 1 ELSE END

\* variant: the position of the target itself, without the step behind it
add_character_index_at_target(targetNode) ==
    IF startswith(targetNode, CHARACTER_PREFIX)
    THEN tree_index(tree, targetNode) ELSE END

add_character_index(targetNode) ==
    IF startswith(targetNode, CHARACTER_PREFIX)
    THEN tree_index(tree, targetNode) + 1 ELSE END

add_book_index(targetNode) ==
    IF startswith(targetNode, BOOK_PREFIX)
    THEN tree_index(tree, targetNode) + 1 ELSE END

\* the ID of the new entity: the first free one of the kind's collection
\* variant: the ID is drawn with the prefix of another kind
new_arc_id_with_point_prefix == create_id(arcs, ARC_POINT_PREFIX)

new_arc_id == create_id(arcs, ARC_PREFIX)

\* variant: the number of the new ID is the size of the collection plus one
new_character_id_by_count == <<CHARACTER_PREFIX, Cardinality(characters) + 1>>

new_character_id == create_id(characters, CHARACTER_PREFIX)

new_book_id == create_id(books, BOOK_PREFIX)

add_arc(targetNode) ==
    IF \/ targetNode = NONE
       \/ startswith(targetNode, ARC_PREFIX) /\ ~tree_exists(tree, targetNode)
       THEN Raise("add_arc", targetNode, EMPTY)
       ELSE LET index == add_arc_index(targetNode)
                acId == new_arc_id
            IN  /\ arcs' = arcs \cup {acId}
                /\ IF tree_insert_ok(tree, AC_ROOT, acId)
                   THEN /\ tree' = tree_insert(tree, AC_ROOT, index, acId)
                        /\ isModified' = TRUE
                        /\ last' = Call("add_arc", targetNode, EMPTY, acId)
                   ELSE /\ UNCHANGED <<tree, isModified>>
                        /\ last' = Call("add_arc", targetNode, EMPTY, ERROR)
                /\ UNCHANGED <<turningPoints, characters, books>>

add_character(targetNode) ==
    IF \/ targetNode = NONE
       \/ startswith(targetNode, CHARACTER_PREFIX) /\ ~tree_exists(tree, targetNode)
       THEN Raise("add_character", targetNode, EMPTY)
       ELSE LET index == add_character_index(targetNode)
                crId == new_character_id
            IN  /\ characters' = characters \cup {crId}
                /\ IF tree_insert_ok(tree, CR_ROOT, crId)
                   THEN /\ tree' = tree_insert(tree, CR_ROOT, index, crId)
                        /\ isModified' = TRUE
                        /\ last' = Call("add_character", targetNode, EMPTY, crId)
                   ELSE /\ UNCHANGED <<tree, isModified>>
                        /\ last' = Call("add_character", targetNode, EMPTY, ERROR)
                /\ UNCHANGED <<arcs, turningPoints, books>>

add_book(targetNode) ==
    IF \/ targetNode = NONE
       \/ startswith(targetNode, BOOK_PREFIX) /\ ~tree_exists(tree, targetNode)
       THEN Raise("add_book", targetNode, EMPTY)
       ELSE LET index == add_book_index(targetNode)
                lcId == new_book_id
            IN  /\ books' = books \cup {lcId}
                /\ IF tree_insert_ok(tree, BK_ROOT, lcId)
                   THEN /\ tree' = tree_insert(tree, BK_ROOT, index, lcId)
                        /\ isModified' = TRUE
                        /\ last' = Call("add_book", targetNode, EMPTY, lcId)
                   ELSE /\ UNCHANGED <<tree, isModified>>
                        /\ last' = Call("add_book", targetNode, EMPTY, ERROR)
                /\ UNCHANGED <<arcs, turningPoints, characters>>

\* ------------------------------------------------------------------------
\* SlModel.add_turning_point
\* ------------------------------------------------------------------------
\* the prefixes that let add_turning_point go on to create a turning point
add_turning_point_accepts(targetNode) ==
    \/ startswith(targetNode, ARC_POINT_PREFIX)
    \/ startswith(targetNode, ARC_PREFIX)

add_turning_point_parent(targetNode) ==
    IF startswith(targetNode, ARC_POINT_PREFIX)
    THEN tree_parent(tree, targetNode) ELSE targetNode

\* variant: the position is always 'end'
add_turning_point_index_end(targetNode) == END

add_turning_point_index(targetNode) ==
    IF startswith(targetNode, ARC_POINT_PREFIX)
    THEN tree_index(tree, targetNode) + 1 ELSE END

new_turning_point_id == create_id(DOMAIN turningPoints, ARC_POINT_PREFIX)

add_turning_point(targetNode) ==
    IF targetNode = NONE \/ ~add_turning_point_accepts(targetNode)
       THEN Return("add_turning_point", targetNode, EMPTY)
       ELSE IF startswith(targetNode, ARC_POINT_PREFIX) /\ ~tree_exists(tree, targetNode)
       THEN Raise("add_turning_point", targetNode, EMPTY)
       ELSE LET parent == add_turning_point_parent(targetNode)
                index == add_turning_point_index(targetNode)
                tpId == new_turning_point_id
            IN  /\ turningPoints' =
                       [tp \in DOMAIN turningPoints \cup {tpId} |->
                           IF tp = tpId THEN TurningPoint(TRUE, <<>>)
                           ELSE turningPoints[tp]]
                /\ IF tree_insert_ok(tree, parent, tpId)
                   THEN /\ tree' = tree_insert(tree, parent, index, tpId)
                        /\ isModified' = TRUE
                        /\ last' = Call("add_turning_point", targetNode, EMPTY, tpId)
                   ELSE /\ UNCHANGED <<tree, isModified>>
                        /\ last' = Call("add_turning_point", targetNode, EMPTY, ERROR)
                /\ UNCHANGED <<arcs, characters, books>>

\* ------------------------------------------------------------------------
\* SlModel.delete_element
\* ------------------------------------------------------------------------
\* a mapping without one of its keys (del d[k])
del(d, k) == [x \in DOMAIN d \ {k} |-> d[x]]

\* variant: the book branch without its loop over the turning points
remove_book_references_skipped(tps, elemId) == tps

\* the book branch's loop over all turning points: a books list that holds
\* elemId loses it; an unset list and a list without elemId stay (the
\* exception is swallowed)
remove_book_references(tps, elemId) ==
    [tpId \in DOMAIN tps |->
        IF ~tps[tpId].booksIsNone /\ elemId \in Range(tps[tpId].books)
        THEN TurningPoint(FALSE, Remove(tps[tpId].books, elemId))
        ELSE tps[tpId]]

\* variant: the arc branch without its loop over the children
delete_arc_children_skipped(children, st) == st

\* the arc branch's loop over the arc's children: each turning point is
\* taken out of the collection, then out of the tree; a child that is not
\* a key of the collection stops the loop with a KeyError
RECURSIVE delete_arc_children(_, _)
delete_arc_children(children, st) ==
    IF children = <<>> \/ ~st.ok THEN st
    ELSE LET tpId == Head(children)
         IN  IF tpId \notin DOMAIN st.turningPoints
             THEN [st EXCEPT !.ok = FALSE]
             ELSE delete_arc_children(Tail(children),
                      [st EXCEPT !.turningPoints = del(@, tpId),
                                 !.tree = tree_delete(@, tpId)])

delete_character(elemId) ==
    IF ~tree_exists(tree, elemId)
    THEN Raise("delete_element", elemId, EMPTY)
    ELSE /\ tree' = tree_delete(tree, elemId)
         /\ isModified' = TRUE
         /\ characters' = characters \ {elemId}
         /\ last' = Call("delete_element", elemId, EMPTY,
                         IF elemId \in characters THEN NONE ELSE ERROR)
         /\ UNCHANGED <<arcs, turningPoints, books>>

delete_book(elemId) ==
    LET tps == remove_book_references(turningPoints, elemId)
    IN  /\ turningPoints' = tps
        /\ IF ~tree_exists(tree, elemId)
           THEN /\ isModified' = (isModified \/ tps # turningPoints)
                /\ last' = Call("delete_element", elemId, EMPTY, ERROR)
                /\ UNCHANGED <<tree, books>>
           ELSE /\ tree' = tree_delete(tree, elemId)
                /\ isModified' = TRUE
                /\ books' = books \ {elemId}
                /\ last' = Call("delete_element", elemId, EMPTY,
                                IF elemId \in books THEN NONE ELSE ERROR)
        /\ UNCHANGED <<arcs, characters>>

delete_arc(elemId) ==
    IF elemId \notin arcs
    THEN Raise("delete_element", elemId, EMPTY)
    ELSE /\ arcs' = arcs \ {elemId}
         /\ IF ~tree_exists(tree, elemId)
            THEN /\ last' = Call("delete_element", elemId, EMPTY, ERROR)
                 /\ UNCHANGED <<tree, turningPoints, isModified>>
            ELSE LET st == delete_arc_children(get_children(tree, elemId),
                               [turningPoints |-> turningPoints,
                                tree |-> tree, ok |-> TRUE])
                 IN  /\ turningPoints' = st.turningPoints
                     /\ tree' = IF st.ok THEN tree_delete(st.tree, elemId)
                                ELSE st.tree
                     /\ isModified' = (isModified \/ tree' # tree)
                     /\ last' = Call("delete_element", elemId, EMPTY,
                                     IF st.ok THEN NONE ELSE ERROR)
         /\ UNCHANGED <<characters, books>>

delete_turning_point(elemId) ==
    IF elemId \notin DOMAIN turningPoints
    THEN Raise("delete_element", elemId, EMPTY)
    ELSE /\ turningPoints' = del(turningPoints, elemId)
         /\ IF ~tree_exists(tree, elemId)
            THEN /\ last' = Call("delete_element", elemId, EMPTY, ERROR)
                 /\ UNCHANGED <<tree, isModified>>
            ELSE /\ tree' = tree_delete(tree, elemId)
                 /\ isModified' = TRUE
                 /\ last' = Call("delete_element", elemId, EMPTY, NONE)
         /\ UNCHANGED <<arcs, characters, books>>

delete_element(elemId) ==
    IF elemId = NONE THEN Raise("delete_element", elemId, EMPTY)
    ELSE IF startswith(elemId, CHARACTER_PREFIX) THEN delete_character(elemId)
    ELSE IF startswith(elemId, BOOK_PREFIX) THEN delete_book(elemId)
    ELSE IF startswith(elemId, ARC_PREFIX) THEN delete_arc(elemId)
    ELSE IF startswith(elemId, ARC_POINT_PREFIX) THEN delete_turning_point(elemId)
    ELSE Return("delete_element", elemId, EMPTY)

\* ------------------------------------------------------------------------
\* SlModel.move_node
\* ------------------------------------------------------------------------
\* variant: every pair of nodes passes the first test
move_node_any_kind(node, targetNode) == TRUE

\* the test that sends a move to the same-kind branch
move_node_same_kind(node, targetNode) == node[1] = targetNode[1]

\* variant: no move takes the turning-point-onto-arc branch
move_node_point_to_arc_never(node, targetNode) == FALSE

\* the test that sends a move to the turning-point-onto-arc branch
move_node_point_to_arc(node, targetNode) ==
    startswith(node, ARC_POINT_PREFIX) /\ startswith(targetNode, ARC_PREFIX)

\* variant: the position behind the target
move_node_position_behind(targetNode) == tree_index(tree, targetNode) + 1

\* the position the same-kind branch hands to tree.move
move_node_position(targetNode) == tree_index(tree, targetNode)

\* carry out tree.move and report it
move_in_tree(node, targetNode, parent, index) ==
    IF ~tree_move_legal(tree, node, parent)
    THEN Raise("move_node", node, targetNode)
    ELSE /\ tree' = tree_move(tree, node, parent, index)
         /\ isModified' = TRUE
         /\ last' = Call("move_node", node, targetNode, NONE)
         /\ UNCHANGED <<arcs, turningPoints, characters, books>>

move_node(node, targetNode) ==
    IF move_node_same_kind(node, targetNode)
    THEN IF ~tree_exists(tree, targetNode)
         THEN Raise("move_node", node, targetNode)
         ELSE move_in_tree(node, targetNode, tree_parent(tree, targetNode),
                           move_node_position(targetNode))
    ELSE IF move_node_point_to_arc(node, targetNode)
    THEN IF ~tree_exists(tree, targetNode)
         THEN Raise("move_node", node, targetNode)
         ELSE IF get_children(tree, targetNode) = <<>>
         THEN move_in_tree(node, targetNode, targetNode, 0)
         ELSE IF tree_prev(tree, targetNode) # EMPTY
         THEN move_in_tree(node, targetNode, tree_prev(tree, targetNode), END)
         ELSE Return("move_node", node, targetNode)
    ELSE Return("move_node", node, targetNode)

\* ------------------------------------------------------------------------
\* Specification
\* ------------------------------------------------------------------------
\* every key of the four collections
Keys == arcs \cup DOMAIN turningPoints \cup characters \cup books

\* the nodes a caller can name: the items of the tree, every key, '' for no
\* node at all, and IDs that no entity holds: of each kind the first free one
MissingId(prefix) ==
    IF prefix = ARC_PREFIX THEN create_id(arcs, ARC_PREFIX)
    ELSE IF prefix = ARC_POINT_PREFIX
    THEN create_id(DOMAIN turningPoints, ARC_POINT_PREFIX)
    ELSE IF prefix = CHARACTER_PREFIX THEN create_id(characters, CHARACTER_PREFIX)
    ELSE create_id(books, BOOK_PREFIX)

Nodes == TreeItems(tree) \cup Keys \cup {EMPTY}

\* the entities and '' as the targets of add_arc, add_character, add_book
Targets == Nodes \ Roots

\* the arcs, the turning points and what a caller can name beside them
PlotNodes ==
    {n \in Nodes : startswith(n, ARC_PREFIX) \/ startswith(n, ARC_POINT_PREFIX)}
        \cup {AC_ROOT, EMPTY}

PlotCount == Cardinality(arcs) + Cardinality(DOMAIN turningPoints)

\* the history of issued IDs grows by the keys a step adds
RecordIssued == issued' = issued \cup (Keys' \ Keys)

\* all six operations of the aggregate on a project of up to MaxEntities
\* entities
Next ==
    \/ \E targetNode \in Targets \cup {MissingId(ARC_PREFIX)} :
           /\ EntityCount < MaxEntities
           /\ add_arc(targetNode) /\ UNCHANGED <<issued, session>>
    \/ \E targetNode \in Targets \cup {MissingId(CHARACTER_PREFIX)} :
           /\ EntityCount < MaxEntities
           /\ add_character(targetNode) /\ UNCHANGED <<issued, session>>
    \/ \E targetNode \in Targets \cup {MissingId(BOOK_PREFIX)} :
           /\ EntityCount < MaxEntities
           /\ add_book(targetNode) /\ UNCHANGED <<issued, session>>
    \/ \E targetNode \in Nodes \cup {NONE, MissingId(ARC_PREFIX),
                                    MissingId(ARC_POINT_PREFIX)} :
           /\ EntityCount < MaxEntities
           /\ add_turning_point(targetNode) /\ UNCHANGED <<issued, session>>
    \/ \E elemId \in Nodes \cup {MissingId(ARC_PREFIX), MissingId(ARC_POINT_PREFIX),
                                MissingId(CHARACTER_PREFIX), MissingId(BOOK_PREFIX)} :
           delete_element(elemId) /\ UNCHANGED <<issued, session>>
    \/ \E node \in TreeItems(tree) \ Roots, targetNode \in TreeItems(tree) \ Roots :
           move_node(node, targetNode) /\ UNCHANGED <<issued, session>>

Spec == Init /\ [][Next]_vars

\* the add_* operations and delete_element, with the history of the IDs the
\* session has issued
NextIds ==
    \/ \E targetNode \in arcs \cup {EMPTY} :
           /\ EntityCount < MaxEntities
           /\ add_arc(targetNode) /\ RecordIssued /\ UNCHANGED session
    \/ \E targetNode \in characters \cup {EMPTY} :
           /\ EntityCount < MaxEntities
           /\ add_character(targetNode) /\ RecordIssued /\ UNCHANGED session
    \/ \E targetNode \in books \cup {EMPTY} :
           /\ EntityCount < MaxEntities
           /\ add_book(targetNode) /\ RecordIssued /\ UNCHANGED session
    \/ \E targetNode \in arcs \cup DOMAIN turningPoints :
           /\ EntityCount < MaxEntities
           /\ add_turning_point(targetNode) /\ RecordIssued /\ UNCHANGED session
    \/ \E elemId \in Keys : delete_element(elemId) /\ RecordIssued /\ UNCHANGED session

SpecIds == Init /\ [][NextIds]_vars

\* arcs and turning points only, up to MaxPlot of them
NextPlot ==
    \/ \E targetNode \in PlotNodes :
           /\ PlotCount < MaxPlot
           /\ add_arc(targetNode) /\ UNCHANGED <<issued, session>>
    \/ \E targetNode \in PlotNodes :
           /\ PlotCount < MaxPlot
           /\ add_turning_point(targetNode) /\ UNCHANGED <<issued, session>>
    \/ \E elemId \in PlotNodes \ {AC_ROOT, EMPTY} :
           delete_element(elemId) /\ UNCHANGED <<issued, session>>
    \/ \E node \in DOMAIN turningPoints, targetNode \in arcs :
           move_node(node, targetNode) /\ UNCHANGED <<issued, session>>

SpecPlot == Init /\ [][NextPlot]_vars

\* move_node alone, on the project of MoveDocument
InitMove == InitFrom({MoveDocument})

NextMove ==
    \E node \in TreeItems(tree) \ Roots, targetNode \in TreeItems(tree) \ Roots :
        move_node(node, targetNode) /\ UNCHANGED <<issued, session>>

SpecMove == InitMove /\ [][NextMove]_vars

TypeOK ==
    /\ Roots \subseteq DOMAIN tree
    /\ DOMAIN tree \subseteq Roots \cup ArcIds
    /\ arcs \subseteq ArcIds
    /\ DOMAIN turningPoints \subseteq PointIds
    /\ characters \subseteq CharacterIds
    /\ books \subseteq BookIds
    /\ isModified \in BOOLEAN
    /\ issued \subseteq EntityIds
    /\ prjFile \in {NONE, Unnamed, Named}
    /\ Range(clients) \subseteq Observers
    /\ DOMAIN refreshed = Observers
    /\ unhooked \subseteq EntityIds
    /\ described \subseteq EntityIds \cup {STORY}

\* ------------------------------------------------------------------------
\* Entity fields, change hooks and observers
\* ------------------------------------------------------------------------
\* a description that is not ''
TEXT == <<"text", 0>>

\* the return values True and False of the controller's operations
Succeeded == <<"True", 0>>

Failed == <<"False", 0>>

\* a project file path
PATH == <<"project.stlx", 0>>

\* number of times an observer stands in the list of clients
count(cl, client) == Cardinality({i \in DOMAIN cl : cl[i] = client})

\* the loop of the isModified setter gives one refresh() per entry of
\* _clients: the refresh() calls of a call that assigns the flag n times
Refreshed(n) == [client \in Observers |-> n * count(clients, client)]

\* register_client appends unless "client in self._clients"
is_client_never(cl, client) == FALSE

is_client(cl, client) == client \in Range(cl)

register_client(client) ==
    /\ clients' = IF is_client(clients, client) THEN clients
                  ELSE Append(clients, client)
    /\ refreshed' = Refreshed(0)
    /\ last' = Call("register_client", EMPTY, EMPTY, NONE)
    /\ UNCHANGED <<tree, arcs, turningPoints, characters, books, isModified,
                   issued, prjFile, unhooked, described, probe, disk>>

\* unregister_client: list.remove takes out the first entry, a ValueError
\* for a client that is not registered is swallowed
unregister_client(client) ==
    /\ clients' = IF client \in Range(clients) THEN Remove(clients, client)
                  ELSE clients
    /\ refreshed' = Refreshed(0)
    /\ last' = Call("unregister_client", EMPTY, EMPTY, NONE)
    /\ UNCHANGED <<tree, arcs, turningPoints, characters, books, isModified,
                   issued, prjFile, unhooked, described, probe, disk>>

\* BasicElement.desc of an entity or of the story
desc(elemId) == IF elemId \in described THEN TEXT ELSE EMPTY

\* the desc setter: a new value is stored and reported to on_element_change,
\* which is SlModel.on_element_change unless the hook is do_nothing
set_desc(elemId, newVal) ==
    /\ last' = Call("set_desc", elemId, newVal, NONE)
    /\ IF desc(elemId) # newVal
       THEN /\ described' = IF newVal = EMPTY THEN described \ {elemId}
                            ELSE described \cup {elemId}
            /\ IF elemId \notin unhooked
               THEN /\ isModified' = TRUE
                    /\ refreshed' = Refreshed(1)
               ELSE /\ refreshed' = Refreshed(0)
                    /\ UNCHANGED isModified
       ELSE /\ refreshed' = Refreshed(0)
            /\ UNCHANGED <<described, isModified>>
    /\ UNCHANGED <<tree, arcs, turningPoints, characters, books, issued,
                   prjFile, clients, unhooked, probe, disk>>

\* SlModel._initialize_tree: the walk from '' goes through the roots, binds
\* the hook of every child and, below an arc, of every turning point
initialize_tree_roots_only(t) == UNION {Range(get_children(t, r)) : r \in Roots}

initialize_tree(t) ==
    LET top == UNION {Range(get_children(t, r)) : r \in Roots}
    IN  top \cup UNION {Range(get_children(t, elemId)) :
                           elemId \in {x \in top : startswith(x, ARC_PREFIX)}}

\* ------------------------------------------------------------------------
\* Project lifecycle.  The operations of SlModel and SlController are
\* functions on the aggregate m: the tree, the story, the flag, the project
\* file, and assigned, the number of assignments of the flag so far in the
\* call, and writes, the documents handed to prjFile.write() so far in the
\* call.  A story of None is a story without entities.
\* ------------------------------------------------------------------------
Aggregate ==
    [tree |-> tree, arcs |-> arcs, turningPoints |-> turningPoints,
     characters |-> characters, books |-> books, isModified |-> isModified,
     prjFile |-> prjFile, unhooked |-> unhooked, described |-> described,
     assigned |-> 0, raised |-> FALSE, writes |-> <<>>]

\* the keys of the story of an aggregate
KeysOf(m) == m.arcs \cup DOMAIN m.turningPoints \cup m.characters \cup m.books

\* the isModified setter
set_isModified(m, setFlag) ==
    [m EXCEPT !.isModified = setFlag, !.assigned = @ + 1]

\* story = None or a new Story: no entities, descriptions '' 
no_story(m) ==
    [m EXCEPT !.arcs = {}, !.turningPoints = EmptyStory.turningPoints,
              !.characters = {}, !.books = {},
              !.unhooked = {}, !.described = {}]

\* SlModel.close_project
close_project_keeps_flag(m) == m

close_project_flag(m) == set_isModified(m, FALSE)

SlModel_close_project(m) ==
    [no_story(close_project_flag(m)) EXCEPT !.prjFile = NONE]

\* SlModel.new_project: a new Story and SlWorkFile(''), then the walk of
\* _initialize_tree, which raises a KeyError on a tree item without entity
SlModel_new_project(m) ==
    LET m1 == [no_story(m) EXCEPT !.prjFile = Unnamed]
    IN  IF initialize_tree(m1.tree) = {} THEN m1
        ELSE [m1 EXCEPT !.raised = TRUE]

\* SlModel.open_project: a new Story, SlWorkFile(filePath), read, the flag,
\* the hooks.  read raises Error for a document it does not accept, before
\* it resets the tree; the entities it loads have the hook do_nothing until
\* _initialize_tree binds them
SlModel_open_project(m, doc, accepted) ==
    LET m1 == [no_story(m) EXCEPT !.prjFile = Named]
        st == read(doc)
        m2 == [m1 EXCEPT !.tree = st.tree, !.arcs = st.arcs,
                         !.turningPoints = st.turningPoints,
                         !.characters = st.characters, !.books = st.books]
        m3 == set_isModified(m2, FALSE)
    IN  IF ~accepted THEN [m1 EXCEPT !.raised = TRUE]
        ELSE [m3 EXCEPT !.unhooked = KeysOf(m3) \ initialize_tree(m3.tree)]

\* SlModel.save_project: the path is set before the file is written; the
\* flag is assigned when write has not raised
save_project_flag_reset(m, written) ==
    set_isModified([m EXCEPT !.raised = ~written], FALSE)

save_project_flag(m, written) ==
    IF written THEN set_isModified(m, FALSE) ELSE [m EXCEPT !.raised = TRUE]

SlModel_save_project(m, filePath, written) ==
    LET m1 == IF filePath # NONE THEN [m EXCEPT !.prjFile = Named] ELSE m
        m2 == IF m1.prjFile = Named /\ ~build_element_tree_raises(m1)
              THEN [m1 EXCEPT !.writes = Append(@, build_element_tree(m1))]
              ELSE m1
    IN  save_project_flag(m2, written /\ m1.prjFile = Named)

\* variant: the tree keeps its items
SlModel_reset_tree_skipped(m) == m

\* SlModel.reset_tree
SlModel_reset_tree(m) == [m EXCEPT !.tree = tree_reset]

\* what the user and the file system answer during a save: the name given
\* in the file dialog ('' to cancel), whether the file has changed on
\* disk, the answer to "Save anyway?", whether the file can be written
SaveAnswers ==
    [fileName : {EMPTY, PATH}, changedOnDisk : BOOLEAN, saveAnyway : BOOLEAN,
     written : BOOLEAN]

\* SlController.save_as
SlController_save_as(m, env) ==
    IF m.prjFile = NONE \/ env.fileName = EMPTY THEN [m EXCEPT !.raised = TRUE]
    ELSE SlModel_save_project(m, env.fileName, env.written)

\* variant: the file is written whatever has_changed_on_disk() returns
SlController_save_project_unasked(m, env) ==
    IF m.prjFile = NONE THEN [m EXCEPT !.raised = TRUE]
    ELSE IF m.prjFile = Unnamed THEN SlController_save_as(m, env)
    ELSE SlModel_save_project(m, NONE, env.written)

\* SlController.save_project; raised stands for the return value False
SlController_save_project(m, env) ==
    IF m.prjFile = NONE THEN [m EXCEPT !.raised = TRUE]
    ELSE IF m.prjFile = Unnamed THEN SlController_save_as(m, env)
    ELSE IF env.changedOnDisk /\ ~env.saveAnyway THEN [m EXCEPT !.raised = TRUE]
    ELSE SlModel_save_project(m, NONE, env.written)

\* SlController.close_project: offer to save a modified project, close the
\* model, reset the view and with it the tree
SlController_close_project(m, doNotSave, saveChanges, env) ==
    LET m1 == IF m.isModified /\ ~doNotSave /\ saveChanges
              THEN [SlController_save_project(m, env) EXCEPT !.raised = FALSE]
              ELSE m
    IN  SlModel_reset_tree(SlModel_close_project(m1))

\* SlController.new_project
new_project_closes(m) == m.prjFile # NONE

SlController_new_project(m, saveChanges, env, envNew) ==
    LET m1 == IF new_project_closes(m)
              THEN SlController_close_project(m, FALSE, saveChanges, env)
              ELSE m
        m2 == SlModel_new_project(m1)
    IN  IF m2.raised THEN m2
        ELSE [SlController_save_project(m2, envNew) EXCEPT !.raised = FALSE]

\* SlController.open_project: without a selected file the call returns
\* False at once; an Error of the model closes the project and the call
\* returns False
SlController_open_project(m, selected, doNotSave, saveChanges, env, doc, accepted) ==
    LET m1 == IF m.prjFile # NONE
              THEN SlController_close_project(m, doNotSave, saveChanges, env)
              ELSE m
        m2 == SlModel_open_project(m1, doc, accepted)
    IN  IF selected = EMPTY THEN [m EXCEPT !.raised = TRUE]
        ELSE IF m2.raised
        THEN [SlController_close_project(m2, doNotSave, saveChanges, env)
                 EXCEPT !.raised = TRUE]
        ELSE m2

\* SlController.reload_project: the call goes on to open_project unless
\* there is no project, the user keeps the changes, or the file has
\* changed on disk and the user does not reload
reload_project_proceeds(m, discard, changedOnDisk, reloadAnyway) ==
    /\ m.prjFile # NONE
    /\ ~(m.isModified /\ ~discard)
    /\ ~(changedOnDisk /\ ~reloadAnyway)

\* the state of the aggregate after a call, the refresh() calls it made
\* and its return value; story tells whether the call replaced the story
ApplyModel(op, node, m, story) ==
    /\ tree' = m.tree
    /\ arcs' = m.arcs
    /\ turningPoints' = m.turningPoints
    /\ characters' = m.characters
    /\ books' = m.books
    /\ isModified' = m.isModified
    /\ prjFile' = m.prjFile
    /\ unhooked' = m.unhooked
    /\ described' = m.described
    /\ refreshed' = Refreshed(m.assigned)
    /\ issued' = IF story THEN KeysOf(m) ELSE issued
    /\ last' = Call(op, node, EMPTY, IF m.raised THEN Failed ELSE Succeeded)
    /\ UNCHANGED clients

\* a call that leaves the disk alone
Apply(op, node, m, story) ==
    /\ ApplyModel(op, node, m, story)
    /\ UNCHANGED <<probe, disk>>

\* the operations of SlModel as the steps of a session
mdl_close_project == Apply("close_project", EMPTY, SlModel_close_project(Aggregate), TRUE)

mdl_new_project == Apply("new_project", EMPTY, SlModel_new_project(Aggregate), TRUE)

mdl_open_project(doc, accepted) ==
    Apply("open_project", PATH, SlModel_open_project(Aggregate, doc, accepted), TRUE)

mdl_save_project(filePath, written) ==
    /\ prjFile # NONE
    /\ Apply("save_project", filePath,
             SlModel_save_project(Aggregate, filePath, written), FALSE)

\* the operations of SlController as the steps of a session
ctrl_close_project(saveChanges, env) ==
    Apply("close_project", EMPTY,
          SlController_close_project(Aggregate, FALSE, saveChanges, env), TRUE)

ctrl_new_project(saveChanges, env, envNew) ==
    Apply("new_project", EMPTY,
          SlController_new_project(Aggregate, saveChanges, env, envNew), TRUE)

ctrl_open_project(selected, saveChanges, env, doc, accepted) ==
    Apply("open_project", selected,
          SlController_open_project(Aggregate, selected, FALSE, saveChanges,
                                    env, doc, accepted),
          selected # EMPTY)

ctrl_save_project(env) ==
    Apply("save_project", EMPTY, SlController_save_project(Aggregate, env), FALSE)

ctrl_reload_project(discard, changedOnDisk, reloadAnyway, selected, doc, accepted) ==
    IF reload_project_proceeds(Aggregate, discard, changedOnDisk, reloadAnyway)
    THEN Apply("reload_project", selected,
               SlController_open_project(Aggregate, selected, TRUE, FALSE,
                                         CHOOSE env \in SaveAnswers : TRUE,
                                         doc, accepted),
               selected # EMPTY)
    ELSE Apply("reload_project", EMPTY, Aggregate, FALSE)

\* ------------------------------------------------------------------------
\* Sessions
\* ------------------------------------------------------------------------
\* a project with an entity of each kind
LifeDocument ==
    [books |-> <<bk1>>,
     arcs |-> << [id |-> ac1, points |-> << [id |-> ap1, ids |-> <<bk1>>] >>] >>,
     characters |-> <<cr1>>]

LifeDocuments == {EmptyDocument, LifeDocument}

\* the application after start: no project, an empty tree, no observer
InitLife ==
    /\ tree = tree_reset
    /\ arcs = {}
    /\ turningPoints = EmptyStory.turningPoints
    /\ characters = {}
    /\ books = {}
    /\ isModified = FALSE
    /\ issued = {}
    /\ last = Call("__init__", EMPTY, EMPTY, NONE)
    /\ prjFile = NONE
    /\ clients = <<>>
    /\ refreshed = Refreshed(0)
    /\ unhooked = {}
    /\ described = {}
    /\ disk = NoDisk
    /\ probe = NoProbe

\* an operation on the entities of the open project: a deleted entity
\* takes its fields and its hook along
Edit(operation) ==
    /\ prjFile # NONE
    /\ operation
    /\ described' = described \cap (Keys' \cup {STORY})
    /\ unhooked' = unhooked \cap Keys'
    /\ UNCHANGED <<issued, prjFile, clients, refreshed, probe, disk>>

\* the answers during the save that close_project offers: the file has a
\* name and has not changed on disk, the write succeeds or fails
CloseAnswers ==
    {env \in SaveAnswers :
        env.fileName = PATH /\ ~env.changedOnDisk /\ env.saveAnyway}

\* the answers during the save that ends new_project: the project has no
\* file yet; the dialog is cancelled or not, the write succeeds or fails
NewAnswers == {env \in SaveAnswers : ~env.changedOnDisk /\ env.saveAnyway}

\* the controller's project operations, edits of descriptions while at most
\* MaxDescribed of them are not '', and add_* and delete_element on a
\* project of up to MaxLife entities
NextLife ==
    \/ \E saveChanges \in BOOLEAN, env \in CloseAnswers, envNew \in NewAnswers :
           ctrl_new_project(saveChanges, env, envNew)
    \/ \E selected \in {EMPTY, PATH}, saveChanges \in BOOLEAN,
          env \in CloseAnswers, doc \in LifeDocuments, accepted \in BOOLEAN :
           ctrl_open_project(selected, saveChanges, env, doc, accepted)
    \/ \E saveChanges \in BOOLEAN, env \in CloseAnswers :
           ctrl_close_project(saveChanges, env)
    \/ \E env \in SaveAnswers : ctrl_save_project(env)
    \/ \E discard \in BOOLEAN, changedOnDisk \in BOOLEAN, reloadAnyway \in BOOLEAN,
          doc \in LifeDocuments, accepted \in BOOLEAN :
           ctrl_reload_project(discard, changedOnDisk, reloadAnyway, PATH,
                               doc, accepted)
    \/ \E elemId \in Keys \cup {STORY}, newVal \in {EMPTY, TEXT} :
           /\ prjFile # NONE
           /\ newVal = TEXT => Cardinality(described \ {elemId}) < MaxDescribed
           /\ set_desc(elemId, newVal)
    \/ EntityCount < MaxLife /\ Edit(add_arc(EMPTY))
    \/ EntityCount < MaxLife /\ Edit(add_character(EMPTY))
    \/ EntityCount < MaxLife /\ Edit(add_book(EMPTY))
    \/ \E targetNode \in arcs :
           EntityCount <= MaxLife /\ Edit(add_turning_point(targetNode))
    \/ \E elemId \in Keys : Edit(delete_element(elemId))

SpecLife == InitLife /\ [][NextLife]_vars

\* the operations of SlModel that assign the flag, with observers that
\* register and unregister in between
NextObservers ==
    \/ \E client \in Observers : register_client(client)
    \/ \E client \in Observers : unregister_client(client)
    \/ \E newVal \in {EMPTY, TEXT} : prjFile # NONE /\ set_desc(STORY, newVal)
    \/ mdl_new_project
    \/ \E accepted \in BOOLEAN : mdl_open_project(EmptyDocument, accepted)
    \/ \E filePath \in {NONE, PATH}, written \in BOOLEAN :
           mdl_save_project(filePath, written)
    \/ mdl_close_project

SpecObservers == InitLife /\ [][NextObservers]_vars

\* ------------------------------------------------------------------------
\* The fields of the story and of the entities in the project file.  An
\* XML element is a record of its children and attributes, None for one
\* that is not there.  A text field is None, '' or a text.
\* ------------------------------------------------------------------------
Texts == {NONE, EMPTY, TEXT}

\* Python truth value of a text field ("if prjArc.title:")
truthy(text) == text \notin {NONE, EMPTY}

\* ET.SubElement(parent, tag).text = text under "if text:"
SubElement(text) == IF truthy(text) THEN text ELSE NONE

\* etree_tools.get_element_text: the text of the child, None without child
get_element_text(child) == child

\* etree_tools.text_to_xml_element splits the text into paragraphs, and
\* xml_element_to_text joins the paragraphs again, '' without element
text_to_xml_element(text) == text

xml_element_to_text(child) == IF child = NONE THEN EMPTY ELSE child

\* a position: None or an int
Position(n) == <<"int", n>>

Positions == {NONE, Position(0), Position(1)}

\* str(position): the decimal digits of an int, the text 'None' for None
str(position) ==
    IF position = NONE THEN <<"None", 1>> ELSE <<"digits", position[2]>>

\* int(text) raises for a text that is not a number: the position is 0
read_position(text) ==
    IF text[1] = "digits" THEN Position(text[2]) ELSE Position(0)

\* _build_project_branch; read does not call _read_project, so the story
\* keeps the title and desc of its constructor
build_project_branch(story) ==
    [Title |-> SubElement(story.title),
     Desc |-> IF truthy(story.desc) THEN text_to_xml_element(story.desc) ELSE NONE]

read_project(xmlProject) ==
    [title |-> get_element_text(xmlProject.Title),
     desc |-> xml_element_to_text(xmlProject.Desc)]

read_story(xmlProject) == [title |-> NONE, desc |-> NONE]

\* the Title, ShortName and Desc of an ARC
build_arc_texts(prjArc) ==
    [Title |-> SubElement(prjArc.title),
     ShortName |-> SubElement(prjArc.shortName),
     Desc |-> IF truthy(prjArc.desc) THEN text_to_xml_element(prjArc.desc) ELSE NONE]

read_arc_texts(xmlArc) ==
    [title |-> get_element_text(xmlArc.Title),
     shortName |-> get_element_text(xmlArc.ShortName),
     desc |-> xml_element_to_text(xmlArc.Desc)]

\* the Title, Desc, Notes, position and Books of a POINT
build_turningPoint_texts(prjTurningPoint) ==
    [Title |-> SubElement(prjTurningPoint.title),
     Desc |-> IF truthy(prjTurningPoint.desc)
              THEN text_to_xml_element(prjTurningPoint.desc) ELSE NONE,
     Notes |-> IF truthy(prjTurningPoint.notes)
               THEN text_to_xml_element(prjTurningPoint.notes) ELSE NONE,
     position |-> str(prjTurningPoint.position),
     ids |-> build_turningPoint_branch(ap1, prjTurningPoint.books).ids]

read_point_texts(xmlPoint, storyBooks) ==
    [title |-> get_element_text(xmlPoint.Title),
     desc |-> xml_element_to_text(xmlPoint.Desc),
     notes |-> xml_element_to_text(xmlPoint.Notes),
     position |-> read_position(xmlPoint.position),
     books |-> TurningPoint(FALSE,
                   valid_books(string_to_list(xmlPoint.ids), storyBooks))]

\* _build_character_branch reads prjCrt.bio for a character with a role:
\* an AttributeError, Character has no bio
build_character_branch_raises(prjCrt) == truthy(prjCrt.role)

build_character_branch(prjCrt) ==
    [Title |-> SubElement(prjCrt.title),
     FullName |-> SubElement(prjCrt.fullName),
     Desc |-> IF truthy(prjCrt.desc) THEN text_to_xml_element(prjCrt.desc) ELSE NONE,
     Role |-> NONE,
     Notes |-> IF truthy(prjCrt.notes) THEN text_to_xml_element(prjCrt.notes) ELSE NONE]

\* _read_characters stores Role as goals; role keeps the None of the
\* constructor
read_character_texts(xmlCharacter) ==
    [title |-> get_element_text(xmlCharacter.Title),
     fullName |-> get_element_text(xmlCharacter.FullName),
     desc |-> xml_element_to_text(xmlCharacter.Desc),
     role |-> NONE,
     notes |-> xml_element_to_text(xmlCharacter.Notes)]

\* _build_book_branch writes Title and, under "if self.story.desc:", Desc;
\* text_to_xml_element raises for a desc of None
build_book_branch_raises(prjBook, storyDesc) ==
    truthy(storyDesc) /\ prjBook.desc = NONE

build_book_branch(prjBook, storyDesc) ==
    [Title |-> SubElement(prjBook.title),
     Desc |-> IF truthy(storyDesc) THEN text_to_xml_element(prjBook.desc) ELSE NONE,
     Notes |-> NONE,
     path |-> NONE]

read_book_texts(xmlBook) ==
    [title |-> get_element_text(xmlBook.Title),
     desc |-> xml_element_to_text(xmlBook.Desc),
     notes |-> xml_element_to_text(xmlBook.Notes),
     nvPath |-> xmlBook.path]

\* the fields of the story or of one entity, written and read back; the
\* turning point refers to books of a story with bk1 and bk2
write_read(kind, fields, storyDesc) ==
    IF kind = "Story"
    THEN [raised |-> FALSE, fields |-> read_story(build_project_branch(fields))]
    ELSE IF kind = "Arc"
    THEN [raised |-> FALSE, fields |-> read_arc_texts(build_arc_texts(fields))]
    ELSE IF kind = "TurningPoint"
    THEN [raised |-> FALSE,
          fields |-> read_point_texts(build_turningPoint_texts(fields), {bk1, bk2})]
    ELSE IF kind = "Character"
    THEN IF build_character_branch_raises(fields)
         THEN [raised |-> TRUE, fields |-> fields]
         ELSE [raised |-> FALSE,
               fields |-> read_character_texts(build_character_branch(fields))]
    ELSE IF build_book_branch_raises(fields, storyDesc)
         THEN [raised |-> TRUE, fields |-> fields]
         ELSE [raised |-> FALSE,
               fields |-> read_book_texts(build_book_branch(fields, storyDesc))]

\* the projects whose fields are written and read back
StoryFields == [title : Texts, desc : Texts]

ArcFields == [title : Texts, shortName : Texts, desc : Texts]

BookLists == {<<>>, <<bk1>>, <<bk2, bk1>>}

PointFields ==
    [title : Texts, desc : Texts, notes : Texts, position : Positions,
     books : {TurningPoint(TRUE, <<>>)}
                 \cup {TurningPoint(FALSE, bookList) : bookList \in BookLists}]

CharacterFields ==
    [title : Texts, fullName : Texts, desc : Texts, role : Texts, notes : Texts]

BookFields == [title : Texts, desc : Texts, notes : Texts, nvPath : {NONE, PATH}]

FieldInputs ==
    {[kind |-> "Story", fields |-> f, storyDesc |-> f.desc] : f \in StoryFields}
    \cup {[kind |-> "Arc", fields |-> f, storyDesc |-> EMPTY] : f \in ArcFields}
    \cup {[kind |-> "TurningPoint", fields |-> f, storyDesc |-> EMPTY] :
             f \in PointFields}
    \cup {[kind |-> "Character", fields |-> f, storyDesc |-> EMPTY] :
             f \in CharacterFields}
    \cup {[kind |-> "Book", fields |-> f, storyDesc |-> d] :
             f \in BookFields, d \in {EMPTY, TEXT}}

\* a project without entities in the tree, and the fields of its story or of
\* one entity on their way to the file
InitFields ==
    /\ tree = tree_reset
    /\ arcs = {}
    /\ turningPoints = EmptyStory.turningPoints
    /\ characters = {}
    /\ books = {}
    /\ isModified = FALSE
    /\ issued = {}
    /\ last = Call("__init__", EMPTY, EMPTY, NONE)
    /\ prjFile = Named
    /\ clients = <<>>
    /\ refreshed = Refreshed(0)
    /\ unhooked = {}
    /\ described = {}
    /\ disk = NoDisk
    /\ \E input \in FieldInputs :
           probe = [kind |-> input.kind, input |-> input,
                    output |-> [raised |-> FALSE, fields |-> input.fields],
                    done |-> FALSE]

\* write, then read
round_trip ==
    /\ ~probe.done
    /\ probe.kind \in {"Story", "Arc", "TurningPoint", "Character", "Book"}
    /\ probe' = [probe EXCEPT
                    !.output = write_read(probe.kind, probe.input.fields,
                                          probe.input.storyDesc),
                    !.done = TRUE]
    /\ last' = Call("write_read", EMPTY, EMPTY, NONE)
    /\ UNCHANGED <<tree, arcs, turningPoints, characters, books, isModified,
                   issued, prjFile, clients, refreshed, unhooked, described, disk>>

SpecFields == InitFields /\ [][round_trip]_vars

\* ------------------------------------------------------------------------
\* StlxFile.read: the version check
\* ------------------------------------------------------------------------
MAJOR_VERSION == 1

MINOR_VERSION == 0

\* the parts of a version attribute between the dots: the digits of an
\* integer, '' or another text
Digits(n) == <<"digits", n>>

\* the version attribute of the root element: missing, or its parts
VersionParts == {Digits(n) : n \in -1..MaxVersion} \cup {EMPTY, TEXT}

Versions ==
    [present : BOOLEAN,
     parts : UNION {[1..n -> VersionParts] : n \in 1..3}]

\* the try block: attrib['version'], the unpacking of split('.') into two
\* names and int() of each raise for a missing attribute, for one or three
\* parts and for a part that is not a number
version_raises(version) ==
    \/ ~version.present
    \/ Len(version.parts) # 2
    \/ \E i \in 1..Len(version.parts) : version.parts[i][1] # "digits"

\* majorVersion < self.MAJOR_VERSION
version_is_outdated_never(majorVersion) == FALSE

version_is_outdated(majorVersion) == majorVersion < MAJOR_VERSION

\* the three tests that raise Error for a version that was parsed
version_refused(majorVersion, minorVersion) ==
    IF majorVersion > MAJOR_VERSION THEN TRUE
    ELSE IF version_is_outdated(majorVersion) THEN TRUE
    ELSE minorVersion > MINOR_VERSION

\* the entities of a document read into a story whose tree has been reset
read_entities(doc, st) ==
    read_characters(doc.characters,
        read_arcs(doc.arcs, read_books(doc.books, [st EXCEPT !.tree = tree_reset])))

\* StlxFile.read on the root element xml, into the story st
StlxFile_read(xml, st) ==
    IF version_raises(xml.version) THEN [raised |-> TRUE, story |-> st]
    ELSE IF version_refused(xml.version.parts[1][2], xml.version.parts[2][2])
    THEN [raised |-> TRUE, story |-> st]
    ELSE [raised |-> FALSE, story |-> read_entities(xml.doc, st)]

\* the project of MoveDocument, and a file with the entities of
\* LifeDocument and some version attribute, about to be read
InitVersion ==
    /\ tree = read(MoveDocument).tree
    /\ arcs = read(MoveDocument).arcs
    /\ turningPoints = read(MoveDocument).turningPoints
    /\ characters = read(MoveDocument).characters
    /\ books = read(MoveDocument).books
    /\ isModified = FALSE
    /\ issued = {}
    /\ last = Call("__init__", EMPTY, EMPTY, NONE)
    /\ prjFile = Named
    /\ clients = <<>>
    /\ refreshed = Refreshed(0)
    /\ unhooked = {}
    /\ described = {}
    /\ disk = NoDisk
    /\ \E version \in Versions :
           probe = [kind |-> "read",
                    input |-> [version |-> version, doc |-> LifeDocument],
                    output |-> [raised |-> FALSE], done |-> FALSE]

\* read, into the story at hand
stlx_read ==
    LET result == StlxFile_read(probe.input,
                      [tree |-> tree, arcs |-> arcs,
                       turningPoints |-> turningPoints,
                       characters |-> characters, books |-> books])
    IN  /\ ~probe.done
        /\ probe.kind = "read"
        /\ probe' = [probe EXCEPT !.output = [raised |-> result.raised],
                                  !.done = TRUE]
        /\ tree' = result.story.tree
        /\ arcs' = result.story.arcs
        /\ turningPoints' = result.story.turningPoints
        /\ characters' = result.story.characters
        /\ books' = result.story.books
        /\ last' = Call("read", EMPTY, EMPTY,
                        IF result.raised THEN ERROR ELSE NONE)
        /\ UNCHANGED <<isModified, issued, prjFile, clients, refreshed,
                       unhooked, described, disk>>

SpecVersion == InitVersion /\ [][stlx_read]_vars

\* ------------------------------------------------------------------------
\* StlxFile.read: the book references of a turning point
\* ------------------------------------------------------------------------
\* the supported version attribute, as write puts it on the root element
CurrentVersion ==
    [present |-> TRUE, parts |-> <<Digits(MAJOR_VERSION), Digits(MINOR_VERSION)>>]

\* the ids attribute of a Books element, split at the blanks: IDs of books
\* of the document, an ID of no book, and '' between two blanks
IdLists == UNION {[1..n -> {EMPTY, bk1, bk2, bk3}] : n \in 0..MaxIds}

\* documents with up to two books and one turning point that refers to books
ReadDocuments ==
    { [books |-> bookList,
       arcs |-> << [id |-> ac1, points |-> << [id |-> ap1, ids |-> ids] >>] >>,
       characters |-> <<>>] :
      bookList \in {<<>>, <<bk1>>, <<bk1, bk2>>, <<bk2, bk1>>}, ids \in IdLists }

\* SlModel.open_project hands a new Story on the reset tree to the reader
InitRead ==
    /\ tree = EmptyStory.tree
    /\ arcs = EmptyStory.arcs
    /\ turningPoints = EmptyStory.turningPoints
    /\ characters = EmptyStory.characters
    /\ books = EmptyStory.books
    /\ isModified = FALSE
    /\ issued = {}
    /\ last = Call("__init__", EMPTY, EMPTY, NONE)
    /\ prjFile = Named
    /\ clients = <<>>
    /\ refreshed = Refreshed(0)
    /\ unhooked = {}
    /\ described = {}
    /\ disk = NoDisk
    /\ \E doc \in ReadDocuments :
           probe = [kind |-> "read",
                    input |-> [version |-> CurrentVersion, doc |-> doc],
                    output |-> [raised |-> FALSE], done |-> FALSE]

SpecRead == InitRead /\ [][stlx_read]_vars

\* ------------------------------------------------------------------------
\* StlxFile.write and SlWorkFile.write on the disk, one file operation at a
\* time.  Each step either goes through or fails with the exception the
\* file operation raises.
\* ------------------------------------------------------------------------
\* os.path.isfile(filePath)
isfile(d) == d.file.form # "none"

\* os.replace(filePath, filePath.bak)
replace_to_bak_keeps_old(d) ==
    IF d.bak.form = "none" THEN [d EXCEPT !.bak = d.file, !.file = NoFile]
    ELSE [d EXCEPT !.file = NoFile]

replace_to_bak(d) == [d EXCEPT !.bak = d.file, !.file = NoFile]

\* os.replace(filePath.bak, filePath)
replace_from_bak(d) == [d EXCEPT !.file = d.bak, !.bak = NoFile]

\* open(filePath, 'w') and the text written so far
open_for_writing(d) ==
    [d EXCEPT !.file = Content("partial", d.doc), !.mtime = @ + 1]

\* write has ended with the exception exc, or without one
return_from_write(d, exc) ==
    [d EXCEPT !.pc = "idle", !.exc = exc,
              !.saved = @ \/ exc = NoException]

\* the handler "except Error" around xmlTree.write: an exception of the
\* class Error restores the backup and is raised again as Error; any other
\* exception is not caught and leaves _write_element_tree as it is
except_Error(d, exc) ==
    IF exc = "Error"
    THEN return_from_write(IF d.backedUp THEN replace_from_bak(d) ELSE d, "Error")
    ELSE return_from_write(d, exc)

\* StlxFile.write up to the call of _write_element_tree: the element tree
\* of the document is built
write_begin(d, doc) ==
    [d EXCEPT !.pc = "backup", !.doc = doc, !.backedUp = FALSE,
              !.exc = NoException, !.before = d.file]

\* one file operation of write; fails tells whether it raises.  open() and
\* file.write() raise OSError
write_step(d, fails) ==
    CASE d.pc = "backup" ->
            \* _write_element_tree: isfile, os.replace to .bak
            IF ~isfile(d) THEN [d EXCEPT !.pc = "open"]
            ELSE IF fails THEN return_from_write(d, "Error")
            ELSE [replace_to_bak(d) EXCEPT !.backedUp = TRUE, !.pc = "open"]
      [] d.pc = "open" ->
            \* xmlTree.write: the file is opened for writing
            IF fails THEN except_Error(d, "OSError")
            ELSE [open_for_writing(d) EXCEPT !.pc = "tree"]
      [] d.pc = "tree" ->
            \* xmlTree.write: the elements are written
            IF fails THEN except_Error(d, "OSError")
            ELSE [d EXCEPT !.file = Content("xml", d.doc), !.pc = "post_read"]
      [] d.pc = "post_read" ->
            \* _postprocess_xml_file: the file is read, outside the try block
            IF fails THEN return_from_write(d, "OSError")
            ELSE [d EXCEPT !.pc = "post_open"]
      [] d.pc = "post_open" ->
            \* _postprocess_xml_file: the file is opened for writing
            IF fails THEN return_from_write(d, "Error")
            ELSE [open_for_writing(d) EXCEPT !.pc = "post_write"]
      [] d.pc = "post_write" ->
            \* _postprocess_xml_file: header and text are written
            IF fails THEN return_from_write(d, "Error")
            ELSE [d EXCEPT !.file = Content("stlx", d.doc), !.pc = "stamp"]
      [] d.pc = "stamp" ->
            \* SlWorkFile.write: the timestamp is read
            return_from_write([d EXCEPT !.timestamp = <<"time", d.mtime>>],
                              NoException)
      [] OTHER -> d

\* the story and the rest of the session while the disk is at work
UnchangedModel ==
    UNCHANGED <<tree, arcs, turningPoints, characters, books, isModified,
                issued, prjFile, clients, refreshed, unhooked, described, probe>>

\* write is called with the document of the project as it stands
disk_write_begin ==
    /\ disk.pc = "idle"
    /\ disk.mtime + 2 <= MaxClock
    /\ ~build_element_tree_raises(Story)
    /\ disk' = write_begin(disk, build_element_tree(Story))
    /\ last' = Call("write", EMPTY, EMPTY, NONE)
    /\ UnchangedModel

\* the next file operation of write goes through
disk_write_step ==
    /\ disk.pc # "idle"
    /\ disk' = write_step(disk, FALSE)
    /\ last' = Call(disk.pc, EMPTY, EMPTY, NONE)
    /\ UnchangedModel

\* the next file operation of write raises
disk_write_fails ==
    /\ disk.pc \notin {"idle", "stamp"}
    /\ disk.pc = "backup" => isfile(disk)
    /\ disk' = write_step(disk, TRUE)
    /\ last' = Call(disk.pc, EMPTY, EMPTY, ERROR)
    /\ UnchangedModel

\* a new project; between two writes the user adds books
InitBackup ==
    /\ tree = EmptyStory.tree
    /\ arcs = EmptyStory.arcs
    /\ turningPoints = EmptyStory.turningPoints
    /\ characters = EmptyStory.characters
    /\ books = EmptyStory.books
    /\ isModified = FALSE
    /\ issued = {}
    /\ last = Call("new_project", EMPTY, EMPTY, NONE)
    /\ prjFile = Named
    /\ clients = <<>>
    /\ refreshed = Refreshed(0)
    /\ unhooked = {}
    /\ described = {}
    /\ probe = NoProbe
    /\ disk = NoDisk

NextBackup ==
    \/ disk_write_begin
    \/ disk_write_step
    \/ disk_write_fails
    \/ /\ disk.pc = "idle"
       /\ Cardinality(books) < MaxBooks
       /\ add_book(EMPTY)
       /\ UNCHANGED <<issued, session>>

SpecBackup == InitBackup /\ [][NextBackup]_vars

\* ------------------------------------------------------------------------
\* SlWorkFile: the timestamp and has_changed_on_disk
\* ------------------------------------------------------------------------
\* write as one call: the file operations one after the other, the one at
\* failAt raises
RECURSIVE run_write(_, _)
run_write(d, failAt) ==
    IF d.pc = "idle" THEN d
    ELSE run_write(write_step(d, d.pc = failAt), failAt)

SlWorkFile_write(d, doc, failAt) == run_write(write_begin(d, doc), failAt)

\* SlWorkFile.read after the superclass has read the file: the timestamp
\* is the modification time, or None when getmtime raises
read_timestamp(d) ==
    [d EXCEPT !.timestamp = IF isfile(d) THEN <<"time", d.mtime>> ELSE NONE]

\* os.path.getmtime(filePath) raises for the filePath None of a project
\* file without path and for a path without file
getmtime_raises(file, d) == file = Unnamed \/ ~isfile(d)

\* SlWorkFile.has_changed_on_disk: the comparison, and False from the
\* except clause
has_changed_on_disk(file, d) ==
    IF getmtime_raises(file, d) THEN FALSE
    ELSE d.timestamp # <<"time", d.mtime>>

\* the project is written to its path, or to the path of a save as
stamp_write ==
    /\ disk.mtime + 2 <= MaxClock
    /\ ~build_element_tree_raises(Story)
    /\ disk' = SlWorkFile_write(disk, build_element_tree(Story), "none")
    /\ prjFile' = Named
    /\ last' = Call("write", EMPTY, EMPTY, NONE)
    /\ UNCHANGED <<tree, arcs, turningPoints, characters, books, isModified,
                   issued, clients, refreshed, unhooked, described, probe>>

\* the project file is read again
stamp_read ==
    /\ prjFile = Named
    /\ disk.file.form \in {"stlx", "xml"}
    /\ disk' = read_timestamp(disk)
    /\ last' = Call("read", EMPTY, EMPTY, NONE)
    /\ UnchangedModel

\* another program writes the file
external_touch ==
    /\ isfile(disk)
    /\ disk.mtime < MaxClock
    /\ disk' = [disk EXCEPT !.mtime = @ + 1]
    /\ last' = Call("touch", EMPTY, EMPTY, NONE)
    /\ UnchangedModel

\* another program removes the file
external_remove ==
    /\ isfile(disk)
    /\ disk' = [disk EXCEPT !.file = NoFile]
    /\ last' = Call("remove", EMPTY, EMPTY, NONE)
    /\ UnchangedModel

\* another program puts a file at the path of the project
external_create(form) ==
    /\ prjFile = Named
    /\ ~isfile(disk)
    /\ disk.mtime < MaxClock
    /\ disk' = [disk EXCEPT !.file = Content(form, EmptyDocument),
                            !.mtime = @ + 1]
    /\ last' = Call("create", EMPTY, EMPTY, NONE)
    /\ UnchangedModel

\* has_changed_on_disk is called; the history keeps what it returned
call_has_changed_on_disk ==
    /\ last' = Call("has_changed_on_disk", EMPTY, EMPTY,
                    IF has_changed_on_disk(prjFile, disk)
                    THEN Succeeded ELSE Failed)
    /\ UNCHANGED disk
    /\ UnchangedModel

\* a new project without path
InitStamp ==
    /\ tree = EmptyStory.tree
    /\ arcs = EmptyStory.arcs
    /\ turningPoints = EmptyStory.turningPoints
    /\ characters = EmptyStory.characters
    /\ books = EmptyStory.books
    /\ isModified = FALSE
    /\ issued = {}
    /\ last = Call("new_project", EMPTY, EMPTY, NONE)
    /\ prjFile = Unnamed
    /\ clients = <<>>
    /\ refreshed = Refreshed(0)
    /\ unhooked = {}
    /\ described = {}
    /\ probe = NoProbe
    /\ disk = NoDisk

NextStamp ==
    \/ stamp_write
    \/ stamp_read
    \/ external_touch
    \/ external_remove
    \/ external_create("stlx")
    \/ call_has_changed_on_disk
    \/ /\ Cardinality(books) < MaxBooks
       /\ add_book(EMPTY)
       /\ UNCHANGED <<issued, session>>

SpecStamp == InitStamp /\ [][NextStamp]_vars

\* ------------------------------------------------------------------------
\* The controller's project operations on the disk.  There is one project
\* path; a write that fails does so in _postprocess_xml_file, with the
\* Error the controller catches.
\* ------------------------------------------------------------------------
\* the disk when write has returned: its locals and the history of the
\* single file operations are gone
at_rest(d) ==
    [d EXCEPT !.doc = NoDisk.doc, !.backedUp = NoDisk.backedUp,
              !.exc = NoDisk.exc, !.before = NoDisk.before,
              !.saved = NoDisk.saved]

\* the documents of the calls of prjFile.write(), one after the other
RECURSIVE apply_writes(_, _, _)
apply_writes(d, writes, failAt) ==
    IF writes = <<>> THEN d
    ELSE apply_writes(at_rest(SlWorkFile_write(d, Head(writes), failAt)),
                      Tail(writes), failAt)

\* the document write would build from an aggregate
DocumentOf(m) ==
    IF build_element_tree_raises(m) THEN EmptyDocument ELSE build_element_tree(m)

\* what the controller meets during a save: the name from the file dialog,
\* has_changed_on_disk(), the answer to "Save anyway?", and whether write
\* comes to its end
Answers(m, d, fileName, saveAnyway, failAt) ==
    [fileName |-> fileName,
     changedOnDisk |-> has_changed_on_disk(m.prjFile, d),
     saveAnyway |-> saveAnyway,
     written |-> SlWorkFile_write(d, DocumentOf(m), failAt).exc = NoException]

\* SlController.select_project: the file name if there is such a file,
\* otherwise what the file dialog returns
select_project(fileName, d, dialog) ==
    IF fileName \in {NONE, EMPTY} \/ ~isfile(d) THEN dialog ELSE fileName

\* the file dialog offers the files there are; '' stands for cancel
Dialog(d) == IF isfile(d) THEN {EMPTY, PATH} ELSE {EMPTY}

\* StlxFile.read of what the path holds: ET.parse raises OSError without a
\* file and ParseError for a text that is not complete; a document of a
\* version that is not supported ("old") raises Error
read_outcome(content) ==
    CASE content.form = "none" -> "OSError"
      [] content.form = "partial" -> "ParseError"
      [] content.form = "old" -> "Error"
      [] OTHER -> "ok"

\* SlController.open_project with the file at the selected path: the
\* handler "except Error" closes the project; any other exception leaves
\* open_project after SlModel.open_project has set the story and prjFile
SlController_open_file(m, selected, doNotSave, saveChanges, env, content) ==
    LET outcome == read_outcome(content)
        m1 == IF m.prjFile # NONE
              THEN SlController_close_project(m, doNotSave, saveChanges, env)
              ELSE m
    IN  IF selected = EMPTY \/ outcome \in {"ok", "Error"}
        THEN SlController_open_project(m, selected, doNotSave, saveChanges,
                                       env, content.doc, outcome = "ok")
        ELSE [no_story(m1) EXCEPT !.prjFile = Named, !.raised = TRUE]

\* the answers and the outcome of a call, for the history
Asked(env, saveChanges, discard, reloadAnyway, saved, proceeded, selected, outcome) ==
    [kind |-> "answers",
     input |-> [changedOnDisk |-> env.changedOnDisk, saveAnyway |-> env.saveAnyway,
                saveChanges |-> saveChanges,
                discard |-> discard, reloadAnyway |-> reloadAnyway],
     output |-> [saved |-> saved, proceeded |-> proceeded,
                 selected |-> selected, outcome |-> outcome],
     done |-> TRUE]

\* save_project
save_on_disk(fileName, saveAnyway, failAt) ==
    LET env == Answers(Aggregate, disk, fileName, saveAnyway, failAt)
        m == SlController_save_project(Aggregate, env)
    IN  /\ disk.mtime + 2 * Len(m.writes) <= MaxSaveClock
        /\ ApplyModel("save_project", EMPTY, m, FALSE)
        /\ disk' = apply_writes(disk, m.writes, failAt)
        /\ probe' = Asked(env, FALSE, FALSE, FALSE, Len(m.writes), TRUE, EMPTY, "none")

\* close_project: the project file object is given up
close_on_disk(saveChanges, saveAnyway, failAt) ==
    LET env == Answers(Aggregate, disk, PATH, saveAnyway, failAt)
        m == SlController_close_project(Aggregate, FALSE, saveChanges, env)
    IN  /\ prjFile # NONE
        /\ disk.mtime + 2 * Len(m.writes) <= MaxSaveClock
        /\ ApplyModel("close_project", EMPTY, m, TRUE)
        /\ disk' = [apply_writes(disk, m.writes, failAt) EXCEPT !.timestamp = NONE]
        /\ probe' = Asked(env, saveChanges, FALSE, FALSE, Len(m.writes), TRUE, EMPTY, "none")

\* new_project: close_project, a project file object without path, and
\* the save that asks for a file name
new_on_disk(saveChanges, saveAnyway, fileName, failAt) ==
    LET env == Answers(Aggregate, disk, PATH, saveAnyway, failAt)
        mc == IF new_project_closes(Aggregate)
              THEN SlController_close_project(Aggregate, FALSE, saveChanges, env)
              ELSE Aggregate
        d1 == [apply_writes(disk, mc.writes, failAt) EXCEPT !.timestamp = NONE]
        envNew == Answers(SlModel_new_project(mc), d1, fileName, TRUE, failAt)
        m == SlController_new_project(Aggregate, saveChanges, env, envNew)
    IN  /\ disk.mtime + 2 * Len(m.writes) <= MaxSaveClock
        /\ ApplyModel("new_project", EMPTY, m, TRUE)
        /\ disk' = apply_writes(d1, SubSeq(m.writes, Len(mc.writes) + 1, Len(m.writes)),
                                failAt)
        /\ probe' = Asked(env, saveChanges, FALSE, FALSE, Len(mc.writes), TRUE, EMPTY, "none")

\* open_project(fileName, doNotSave) as the operation op
open_on_disk(op, fileName, doNotSave, saveChanges, saveAnyway, dialog, failAt, discard, reloadAnyway) ==
    LET selected == select_project(fileName, disk, dialog)
        env == Answers(Aggregate, disk, PATH, saveAnyway, failAt)
        mc == IF prjFile # NONE
              THEN SlController_close_project(Aggregate, doNotSave, saveChanges, env)
              ELSE Aggregate
        d1 == IF selected = EMPTY THEN disk
              ELSE [apply_writes(disk, mc.writes, failAt) EXCEPT !.timestamp = NONE]
        outcome == read_outcome(d1.file)
        m == SlController_open_file(Aggregate, selected, doNotSave, saveChanges,
                                    env, d1.file)
    IN  /\ disk.mtime + 2 * Len(mc.writes) <= MaxSaveClock
        /\ ApplyModel(op, selected, m, selected # EMPTY)
        /\ disk' = IF selected # EMPTY /\ outcome = "ok" THEN read_timestamp(d1) ELSE d1
        /\ probe' = Asked(env, saveChanges, discard, reloadAnyway,
                          IF selected = EMPTY THEN 0 ELSE Len(mc.writes), TRUE,
                          selected, IF selected = EMPTY THEN "none" ELSE outcome)

\* the path of a project file, None for SlWorkFile('')
filePath(file) == IF file = Named THEN PATH ELSE NONE

\* reload_project
reload_on_disk(discard, reloadAnyway, dialog) ==
    IF reload_project_proceeds(Aggregate, discard,
                               has_changed_on_disk(prjFile, disk), reloadAnyway)
    THEN open_on_disk("reload_project", filePath(prjFile), TRUE, FALSE, FALSE,
                      dialog, "none", discard, reloadAnyway)
    ELSE /\ ApplyModel("reload_project", EMPTY, Aggregate, FALSE)
         /\ probe' = Asked(Answers(Aggregate, disk, PATH, FALSE, "none"), FALSE,
                           discard, reloadAnyway, 0, FALSE, EMPTY, "none")
         /\ UNCHANGED disk

\* no project, no file
InitSave ==
    /\ tree = EmptyStory.tree
    /\ arcs = EmptyStory.arcs
    /\ turningPoints = EmptyStory.turningPoints
    /\ characters = EmptyStory.characters
    /\ books = EmptyStory.books
    /\ isModified = FALSE
    /\ issued = {}
    /\ last = Call("__init__", EMPTY, EMPTY, NONE)
    /\ prjFile = NONE
    /\ clients = <<>>
    /\ refreshed = Refreshed(0)
    /\ unhooked = {}
    /\ described = {}
    /\ probe = NoProbe
    /\ disk = NoDisk

\* the places where a write of SpecSave fails
Failures == {"none", "post_write"}

\* the controller's project operations, a book added now and then, and
\* another program at work on the file.  The writes of save_project and
\* close_project go through or fail, those of new_project go through;
\* "Save changes?" is answered no when open_project closes a project
NextSave ==
    \/ \E fileName \in {EMPTY, PATH}, saveAnyway \in BOOLEAN, failAt \in Failures :
           save_on_disk(fileName, saveAnyway, failAt)
    \/ \E saveChanges \in BOOLEAN, saveAnyway \in BOOLEAN, failAt \in Failures :
           close_on_disk(saveChanges, saveAnyway, failAt)
    \/ \E saveChanges \in BOOLEAN, saveAnyway \in BOOLEAN,
          fileName \in {EMPTY, PATH} :
           new_on_disk(saveChanges, saveAnyway, fileName, "none")
    \/ \E dialog \in Dialog(disk) :
           open_on_disk("open_project", EMPTY, FALSE, FALSE, FALSE,
                        dialog, "none", FALSE, FALSE)
    \/ \E discard \in BOOLEAN, reloadAnyway \in BOOLEAN, dialog \in Dialog(disk) :
           reload_on_disk(discard, reloadAnyway, dialog)
    \/ /\ prjFile # NONE
       /\ Cardinality(books) < MaxLife
       /\ add_book(EMPTY)
       /\ UNCHANGED <<issued, session>>
    \/ disk.mtime < MaxSaveClock /\ external_touch
    \/ external_remove
    \/ \E form \in {"stlx", "old"} :
           disk.mtime < MaxSaveClock /\ external_create(form)

SpecSave == InitSave /\ [][NextSave]_vars

\* ------------------------------------------------------------------------
\* Properties
\* ------------------------------------------------------------------------
\* the places <<parent, position>> at which an ID stands in a tree
PlacesIn(t, id) ==
    UNION {{<<p, i>> : i \in {j \in 1..Len(t[p]) : t[p][j] = id}} :
              p \in DOMAIN t}

Places(id) == PlacesIn(tree, id)

\* a child list without one ID
Without(s, id) == SelectSeq(s, LAMBDA x : x # id)

\* the key set of the collection an ID prefix belongs to
Collection(prefix) ==
    IF prefix = ARC_PREFIX THEN arcs
    ELSE IF prefix = ARC_POINT_PREFIX THEN DOMAIN turningPoints
    ELSE IF prefix = CHARACTER_PREFIX THEN characters
    ELSE IF prefix = BOOK_PREFIX THEN books
    ELSE {}

\* the prefix of the kind an add_* operation creates
KindPrefix(op) ==
    IF op = "add_arc" THEN ARC_PREFIX
    ELSE IF op = "add_turning_point" THEN ARC_POINT_PREFIX
    ELSE IF op = "add_character" THEN CHARACTER_PREFIX
    ELSE BOOK_PREFIX

\* the root of the kinds that stand directly under a root
KindRoot(prefix) ==
    IF prefix = ARC_PREFIX THEN AC_ROOT
    ELSE IF prefix = CHARACTER_PREFIX THEN CR_ROOT
    ELSE BK_ROOT

\* the call was an add_* that returned an ID
Returned(call) ==
    /\ call.op \in {"add_arc", "add_character", "add_book", "add_turning_point"}
    /\ call.result \notin {NONE, ERROR}

\* C1: every key of the four collections stands at exactly one place of the
\* tree: in one child list, once
C1_EveryEntityOnceInTree ==
    \A id \in Keys : Cardinality(Places(id)) = 1

\* C2: the tree and the collections hold the same IDs: every item of the
\* tree below the roots is a key of the collection of its kind, and every
\* key is an item of the tree
C2_TreeMatchesCollections ==
    /\ \A id \in TreeItems(tree) \ Roots : id \in Collection(id[1])
    /\ Keys \subseteq TreeItems(tree)

C4_DeleteBookClearsReferences ==
    [][(/\ last'.op = "delete_element"
        /\ last'.node \in books
        /\ tree_exists(tree, last'.node))
       => LET bookId == last'.node
          IN  /\ bookId \notin books'
              /\ ~tree_exists(tree', bookId)
              /\ DOMAIN turningPoints' = DOMAIN turningPoints
              /\ \A tp \in DOMAIN turningPoints :
                     /\ turningPoints'[tp].booksIsNone = turningPoints[tp].booksIsNone
                     /\ bookId \notin Range(turningPoints'[tp].books)
                     /\ turningPoints'[tp].books =
                            SelectSeq(turningPoints[tp].books,
                                      LAMBDA b : b # bookId)]_vars

\* C4 witness: bk1 was deleted; the turning point that referred to bk3, bk1,
\* bk2 now refers to bk3, bk2, the one that referred to bk1 alone to nothing
C4_BookDeletedOrderKept ==
    /\ last.op = "delete_element"
    /\ last.node = bk1
    /\ last.result = NONE
    /\ {ap1, ap2} \subseteq DOMAIN turningPoints
    /\ turningPoints[ap1].books = <<bk3, bk2>>
    /\ turningPoints[ap2].books = <<>>
    /\ ~turningPoints[ap2].booksIsNone

\* C5: an ID that add_* returns carries the prefix of the kind and was not
\* a key of the kind's collection when the call began
C5_NewIdHasPrefixAndIsFree ==
    [][Returned(last')
       => /\ last'.result[1] = KindPrefix(last'.op)
          /\ last'.result \notin Collection(KindPrefix(last'.op))]_vars

\* C5 witness: add_arc returned ac2 while ac1 was an arc
C5_SecondArcAdded ==
    /\ last.op = "add_arc"
    /\ last.result = ac2
    /\ arcs = {ac1, ac2}

C9_InvalidTargetIsNoOp ==
    [][(/\ last'.op = "add_turning_point"
        /\ last'.node \notin arcs \cup DOMAIN turningPoints)
       => /\ turningPoints' = turningPoints
          /\ tree' = tree
          /\ ~Returned(last')]_vars

\* C10: move_node on two entities of different kinds, unless a turning
\* point is moved onto an arc, changes neither the tree nor a collection
C10_IllegalMoveIsNoOp ==
    [][(/\ last'.op = "move_node"
        /\ {last'.node, last'.target} \subseteq Keys
        /\ last'.node[1] # last'.target[1]
        /\ ~(/\ startswith(last'.node, ARC_POINT_PREFIX)
             /\ startswith(last'.target, ARC_PREFIX)))
       => UNCHANGED <<tree, arcs, turningPoints, characters, books>>]_vars

\* C10 witness: move_node was called with a character and an arc
C10_CharacterMovedOntoArc ==
    /\ last.op = "move_node"
    /\ last.node \in characters
    /\ last.target \in arcs

C15_StructuralMutationSetsFlag ==
    [][(\/ Returned(last')
        \/ last'.op = "delete_element" /\ last'.node \in Keys
        \/ last'.op = "move_node" /\ tree' # tree)
       => isModified']_vars

\* C13: immediately after a successful new_project or open_project of the
\* controller the modification flag is false, whatever the state before
C13_FlagFalseAfterNewOrOpen ==
    [][(/\ last'.op \in {"new_project", "open_project"}
        /\ last'.result = Succeeded)
       => ~isModified']_vars

\* a new project was created while a project with entities was open, and
\* the save dialog that follows was cancelled
C13_NewProjectReplacedOpenOne ==
    /\ last.op = "new_project"
    /\ last.result = Succeeded
    /\ last.before > 0
    /\ prjFile = Unnamed
    /\ ~isModified

\* C14: in an open project, setting the description of the story or of an
\* entity, created or loaded, to a different value sets the modification
\* flag; a successful open_project leaves the flag false
C14_FieldChangeSetsFlag ==
    [][/\ (/\ last'.op = "set_desc"
           /\ desc(last'.node) # last'.target) => isModified'
       /\ (/\ last'.op \in {"open_project", "reload_project"}
           /\ last'.node # EMPTY
           /\ last'.result = Succeeded) => ~isModified']_vars

\* the description of the loaded turning point has been edited
C14_LoadedPointEdited ==
    /\ Keys = {bk1, ac1, ap1, cr1}
    /\ last.op = "set_desc"
    /\ last.node = ap1
    /\ ap1 \in described
    /\ isModified

\* the call left the project open: an edit, an add_*, a delete_element, a
\* save, or an open or reload that returned before it closed the project
InSession(call) ==
    \/ call.op \in {"set_desc", "add_arc", "add_character", "add_book",
                    "add_turning_point", "delete_element", "save_project"}
    \/ call.op \in {"open_project", "reload_project"} /\ call.node = EMPTY

\* C16: within a session a true modification flag stays true through
\* edits, failing and aborted saves, and becomes false only by a
\* successful save_project, which always leaves it false
C16_FlagFalseOnlyBySave ==
    [][/\ (prjFile # NONE /\ isModified /\ InSession(last'))
           => \/ isModified'
              \/ last'.op = "save_project" /\ last'.result = Succeeded
       /\ (last'.op = "save_project" /\ last'.result = Succeeded)
           => ~isModified']_vars

\* a save of a modified project has failed or was aborted
C16_ModifiedAfterUnsuccessfulSave ==
    /\ last.op = "save_project"
    /\ last.result = Failed
    /\ prjFile = Named
    /\ isModified

\* the call assigned the modification flag: a change of a description, a
\* close_project, an open_project or save_project that did not raise
Assigning(call, edited) ==
    \/ call.op = "set_desc" /\ edited
    \/ call.op = "close_project"
    \/ call.op \in {"open_project", "save_project"} /\ call.result = Succeeded

\* C17: a call that assigns the modification flag gives every registered
\* observer exactly one refresh(), however often it has registered, and
\* none to an observer that is not registered; other calls give none
C17_OneRefreshPerObserver ==
    [][\A client \in Observers :
          refreshed'[client] =
              IF Assigning(last', described' # described)
                     /\ client \in Range(clients)
              THEN 1 ELSE 0]_vars

\* close_project has assigned the flag with two observers registered and
\* one not
C17_TwoOfThreeRefreshed ==
    /\ last.op = "close_project"
    /\ Range(clients) = {"o1", "o2"}
    /\ refreshed = [client \in Observers |-> IF client = "o3" THEN 0 ELSE 1]

\* C18: writing the project and reading it back gives the same IDs of
\* arcs, turning points, characters and books, and the same tree: the same
\* parent for every ID and the same order under every parent
C18_StructureRoundTrip ==
    /\ ~build_element_tree_raises(Story)
    /\ LET st == read(build_element_tree(Story))
       IN  /\ st.arcs = arcs
           /\ DOMAIN st.turningPoints = DOMAIN turningPoints
           /\ st.characters = characters
           /\ st.books = books
           /\ st.tree = tree

\* C19: writing the project and reading it back gives back every field of
\* the story and of every entity: the write does not fail and each field
\* has the value it had
C19_FieldRoundTrip ==
    (probe.done /\ probe.kind \in {"Story", "Arc", "TurningPoint", "Character", "Book"})
        => /\ ~probe.output.raised
           /\ probe.output.fields = probe.input.fields

\* the version attribute is there and has the form of two integers with one
\* dot between them
WellFormed(version) ==
    /\ version.present
    /\ Len(version.parts) = 2
    /\ \A i \in 1..2 : version.parts[i][1] = "digits"

\* C20: read accepts a document exactly if its version attribute is there,
\* has the form of two integers with one dot between them, the major
\* version is MAJOR_VERSION and the minor version at most MINOR_VERSION,
\* and then the tree holds the entities of the document and nothing else;
\* otherwise it raises, and the tree and the entities are as before
C20_VersionGate ==
    [][probe'.done /\ ~probe.done /\ probe.kind = "read"
       => LET version == probe.input.version
              supported == /\ WellFormed(version)
                           /\ version.parts[1][2] = MAJOR_VERSION
                           /\ version.parts[2][2] <= MINOR_VERSION
          IN  IF supported
              THEN /\ ~probe'.output.raised
                   /\ {bk1, ac1, ap1, cr1} \subseteq Keys'
                   /\ TreeItems(tree') = Roots \cup {bk1, ac1, ap1, cr1}
              ELSE /\ probe'.output.raised
                   /\ UNCHANGED <<tree, arcs, turningPoints, characters, books>>]_vars

\* a file of an outdated major version was refused, the tree still holds
\* the turning points of the project
C20_OutdatedVersionRefused ==
    /\ probe.done
    /\ probe.kind = "read"
    /\ WellFormed(probe.input.version)
    /\ probe.input.version.parts[1][2] < MAJOR_VERSION
    /\ probe.output.raised
    /\ ap3 \in TreeItems(tree)

\* the first place of an ID in a list
FirstAt(list, x) == CHOOSE i \in 1..Len(list) : list[i] = x /\ \A j \in 1..(i - 1) : list[j] # x

\* C21: after a successful read, the books list of every turning point
\* holds exactly the IDs of its document entry that are keys of the loaded
\* books, without '' and without repetition, in the order in which they
\* first stand in the document; unknown and empty IDs raise no error
C21_BookReferencesValid ==
    (probe.done /\ probe.kind = "read" /\ probe.input.version = CurrentVersion)
        => /\ ~probe.output.raised
           /\ \A a \in 1..Len(probe.input.doc.arcs) :
                  \A p \in 1..Len(probe.input.doc.arcs[a].points) :
                      LET xmlPoint == probe.input.doc.arcs[a].points[p]
                          tpBooks == turningPoints[xmlPoint.id].books
                      IN  /\ xmlPoint.id \in DOMAIN turningPoints
                          /\ ~turningPoints[xmlPoint.id].booksIsNone
                          /\ Range(tpBooks) \subseteq books
                          /\ EMPTY \notin Range(tpBooks)
                          /\ Cardinality(Range(tpBooks)) = Len(tpBooks)
                          /\ Range(tpBooks) = Range(xmlPoint.ids) \cap books
                          /\ \A i \in 1..Len(tpBooks) : \A j \in (i + 1)..Len(tpBooks) :
                                 FirstAt(xmlPoint.ids, tpBooks[i])
                                     < FirstAt(xmlPoint.ids, tpBooks[j])

\* a turning point whose entry names an unknown book, a book twice and ''
\* was read: the one reference to the known book is left
C21_UnknownEmptyAndRepeatedDropped ==
    /\ probe.done
    /\ probe.kind = "read"
    /\ ~probe.output.raised
    /\ probe.input.doc.arcs[1].points[1].ids = <<bk3, bk2, EMPTY, bk2>>
    /\ books = {bk1, bk2}
    /\ turningPoints[ap1].books = <<bk2>>

\* a write that has renamed the file ends with an exception
FailsAfterBackup ==
    /\ disk.pc \in {"open", "tree", "post_read", "post_open", "post_write"}
    /\ disk.backedUp
    /\ disk'.pc = "idle"
    /\ disk'.exc # NoException

\* C22: when write fails after the file was renamed to .bak, while the
\* element tree is written or during the post-processing, the file at the
\* path has again the content it had when write began, and write ends with
\* an exception
C22_BackupRestoredOnFailure ==
    [][FailsAfterBackup => disk'.file = disk.before]_vars

\* a path holds a complete document
Complete(content) == content.form \in {"stlx", "xml"}

\* C23: once a write has come to its end, at every step of every later
\* write the path or its .bak sibling holds a complete document
C23_FileOrBackupComplete ==
    disk.saved => Complete(disk.file) \/ Complete(disk.bak)

\* C24: a write over an existing file that comes to its end leaves the
\* content the file had when the write began as .bak and the document of
\* the project at the path; a write whose rename to .bak fails ends with
\* Error and leaves the file and the .bak as they were
C24_PreviousFileKeptAsBackup ==
    [][/\ (disk.pc = "stamp" /\ disk'.pc = "idle" /\ disk.before.form # "none")
           => /\ disk'.exc = NoException
              /\ disk'.bak = disk.before
              /\ disk'.file = Content("stlx", build_element_tree(Story))
       /\ (disk.pc = "backup" /\ disk'.pc = "idle")
           => /\ disk'.exc = "Error"
              /\ disk'.file = disk.file
              /\ disk'.bak = disk.bak]_vars

\* the third write of a session has come to its end: the .bak of the
\* second write, the empty project, has given way to the project with one
\* book, and the file holds the project with two books
C24_OlderBackupReplaced ==
    /\ disk.pc = "idle"
    /\ disk.exc = NoException
    /\ disk.saved
    /\ disk.before = Content("stlx", [EmptyDocument EXCEPT !.books = <<bk1>>])
    /\ disk.bak = disk.before
    /\ disk.file = Content("stlx", [EmptyDocument EXCEPT !.books = <<bk1, bk2>>])

\* C25: has_changed_on_disk returns True exactly if the project file has
\* a path and the file at the path has vanished or has a modification
\* time other than the timestamp; without a path it returns False
C25_ChangedOnDiskExactly ==
    [][last'.op = "has_changed_on_disk"
       => (last'.result = Succeeded
              <=> /\ prjFile = Named
                  /\ \/ disk.file.form = "none"
                     \/ disk.timestamp # <<"time", disk.mtime>>)]_vars

\* the step is a call in which save_project runs on a project with a path
\* whose has_changed_on_disk() returns True
SavesChangedFile ==
    /\ prjFile = Named
    /\ has_changed_on_disk(prjFile, disk)
    /\ \/ last'.op = "save_project"
       \/ /\ last'.op \in {"close_project", "new_project"}
          /\ isModified
          /\ probe'.input.saveChanges

\* C26: when save_project runs on a project with a path whose file has
\* changed on disk, from the menu or from close_project or new_project,
\* the file is written only if "Save anyway?" was answered yes; after a no
\* nothing is written: by save_project itself the file, its .bak, the
\* timestamp and the flag are left as they were and False is returned
C26_ChangedFileWrittenOnlyOnYes ==
    [][SavesChangedFile
       => /\ probe'.output.saved > 0 => probe'.input.saveAnyway
          /\ ~probe'.input.saveAnyway
              => /\ probe'.output.saved = 0
                 /\ last'.op = "save_project"
                     => /\ disk' = disk
                        /\ isModified' = isModified
                        /\ prjFile' = prjFile
                        /\ last'.result = Failed
                 /\ last'.op = "close_project"
                     => /\ disk'.file = disk.file
                        /\ disk'.bak = disk.bak
                        /\ disk'.mtime = disk.mtime]_vars

\* save_project has met a file that another program has written since the
\* project was saved, the user has said no: the project is still modified
C26_SaveRefusedOnChangedFile ==
    /\ last.op = "save_project"
    /\ last.result = Failed
    /\ probe.kind = "answers"
    /\ probe.input.changedOnDisk
    /\ ~probe.input.saveAnyway
    /\ prjFile = Named
    /\ isModified
    /\ disk.file.form = "stlx"
    /\ disk.timestamp # <<"time", disk.mtime>>

\* C27: when open_project meets a file it cannot read as a project, for
\* its version or for a text that is no complete XML document, there is
\* no project afterwards: no project file, no entities, an empty tree, the
\* flag False, and the call returns False
C27_FailedOpenEndsWithoutProject ==
    [][(/\ last'.op \in {"open_project", "reload_project"}
        /\ probe'.output.outcome \in {"Error", "ParseError"})
       => /\ prjFile' = NONE
          /\ Keys' = {}
          /\ tree' = tree_reset
          /\ isModified' = FALSE
          /\ last'.result = Failed]_vars

\* the file of the project is not what it was when the project was read
\* or written: it has vanished, or it has another modification time
FileChanged ==
    /\ prjFile = Named
    /\ \/ disk.file.form = "none"
       \/ disk.timestamp # <<"time", disk.mtime>>

\* C28: reload_project goes on only if the user has agreed to discard the
\* changes of a modified project and to reload a file that has changed on
\* disk; then it writes nothing, opens the path of the project again, and
\* if that succeeds the project is open and unmodified and holds what the
\* file holds
C28_ReloadDiscardsAndReopens ==
    [][(last'.op = "reload_project" /\ probe'.output.proceeded)
       => /\ isModified => probe'.input.discard
          /\ FileChanged => probe'.input.reloadAnyway
          /\ disk'.file = disk.file
          /\ disk'.bak = disk.bak
          /\ disk'.mtime = disk.mtime
          /\ prjFile = Named => probe'.output.selected = PATH
          /\ last'.result = Succeeded
              => /\ prjFile' = Named
                 /\ ~isModified'
                 /\ Story' = read(disk.file.doc)]_vars

\* ------------------------------------------------------------------------
\* A story line from its creation to the reloaded project: the titles that
\* add_arc and add_turning_point give, the file that save_project writes
\* and the project that reload_project reads
\* ------------------------------------------------------------------------
\* the longest history of calls that is followed after new_project
MaxTrace == 4

MAIN_PLOT == <<"Main Plot", 0>>

INCITING_INCIDENT == <<"Inciting Incident", 0>>

\* kwargs.get('title', f'New Arc ({acId})') and
\* kwargs.get('title', f'New Turning point ({tpId})')
default_title(elemId) ==
    IF elemId[1] = ARC_PREFIX THEN <<"New Arc", elemId[2]>>
    ELSE <<"New Turning point", elemId[2]>>

kwargs_get_title(title, elemId) ==
    IF title = NONE THEN default_title(elemId) ELSE title

\* the titles of the entities in memory, the calls since new_project with
\* what they returned, and the titles in the project file
Titled(titles, trace, file) ==
    [kind |-> "titles", input |-> [titles |-> titles, trace |-> trace],
     output |-> file, done |-> file.saved]

NoTitles == [elemId \in {} |-> NONE]

NoTitledFile == [saved |-> FALSE, doc |-> EmptyDocument, Title |-> NoTitles]

\* variant: the Title element is written without its text
build_titles_blank(st, titles) ==
    [elemId \in st.arcs \cup DOMAIN st.turningPoints |-> NONE]

\* the Title elements of the ARC and POINT branches
build_titles(st, titles) ==
    [elemId \in st.arcs \cup DOMAIN st.turningPoints |-> SubElement(titles[elemId])]

\* the titles _read_arcs gives the arcs and turning points of the file
read_titles(st, xmlTitles) ==
    [elemId \in st.arcs \cup DOMAIN st.turningPoints |->
        get_element_text(xmlTitles[elemId])]

\* add_arc and add_turning_point with their title argument, None for a
\* call without it
add_titled(operation, op, targetNode, title) ==
    /\ prjFile # NONE
    /\ Len(probe.input.trace) < MaxTrace
    /\ operation
    /\ described' = described \cap (Keys' \cup {STORY})
    /\ unhooked' = unhooked \cap Keys'
    /\ probe' = Titled(
           [elemId \in Keys' |->
               IF elemId \in Keys THEN probe.input.titles[elemId]
               ELSE kwargs_get_title(title, elemId)],
           Append(probe.input.trace,
                  [op |-> op, target |-> targetNode, title |-> title,
                   result |-> last'.result]),
           probe.output)
    /\ UNCHANGED <<issued, prjFile, clients, refreshed, disk>>

\* the project file after the writes of a call
titled_file(m, titles) ==
    IF m.writes = <<>> THEN probe.output
    ELSE [saved |-> TRUE, doc |-> m.writes[Len(m.writes)],
          Title |-> build_titles(m, titles)]

\* SlController.new_project, which discards an open project and ends with
\* the save of the new one
titled_new_project(envNew) ==
    LET m == SlController_new_project(Aggregate, FALSE,
                                      CHOOSE env \in CloseAnswers : TRUE, envNew)
    IN  /\ ApplyModel("new_project", EMPTY, m, TRUE)
        /\ probe' = Titled(NoTitles, <<>>, titled_file(m, NoTitles))
        /\ UNCHANGED disk

titled_save_project ==
    LET m == SlModel_save_project(Aggregate, PATH, TRUE)
    IN  /\ prjFile # NONE
        /\ Len(probe.input.trace) < MaxTrace
        /\ ApplyModel("save_project", PATH, m, FALSE)
        /\ probe' = Titled(probe.input.titles,
                           Append(probe.input.trace,
                                  [op |-> "save_project", target |-> PATH,
                                   title |-> NONE, result |-> Succeeded]),
                           titled_file(m, probe.input.titles))
        /\ UNCHANGED disk

titled_reload_project ==
    LET m == SlController_open_project(Aggregate, PATH, TRUE, FALSE,
                                       CHOOSE env \in SaveAnswers : TRUE,
                                       probe.output.doc, TRUE)
    IN  /\ prjFile = Named
        /\ probe.output.saved
        /\ Len(probe.input.trace) < MaxTrace
        /\ ApplyModel("reload_project", PATH, m, TRUE)
        /\ probe' = Titled(read_titles(m, probe.output.Title),
                           Append(probe.input.trace,
                                  [op |-> "reload_project", target |-> PATH,
                                   title |-> NONE, result |-> Succeeded]),
                           probe.output)
        /\ UNCHANGED disk

\* the application after start, no project file written yet
InitTitled ==
    /\ tree = tree_reset
    /\ arcs = {}
    /\ turningPoints = EmptyStory.turningPoints
    /\ characters = {}
    /\ books = {}
    /\ isModified = FALSE
    /\ issued = {}
    /\ last = Call("__init__", EMPTY, EMPTY, NONE)
    /\ prjFile = NONE
    /\ clients = <<>>
    /\ refreshed = Refreshed(0)
    /\ unhooked = {}
    /\ described = {}
    /\ disk = NoDisk
    /\ probe = Titled(NoTitles, <<>>, NoTitledFile)

NextTitled ==
    \/ \E envNew \in NewAnswers : titled_new_project(envNew)
    \/ \E title \in {NONE, MAIN_PLOT} :
           /\ EntityCount < MaxLife
           /\ add_titled(add_arc(EMPTY), "add_arc", EMPTY, title)
    \/ \E targetNode \in arcs \cup DOMAIN turningPoints,
          title \in {NONE, INCITING_INCIDENT} :
           /\ EntityCount <= MaxLife
           /\ add_titled(add_turning_point(targetNode), "add_turning_point",
                         targetNode, title)
    \/ titled_save_project
    \/ titled_reload_project

SpecTitled == InitTitled /\ [][NextTitled]_vars

\* the calls since new_project begin with add_arc(title='Main Plot')
AfterMainPlot ==
    /\ probe.kind = "titles"
    /\ Len(probe.input.trace) >= 1
    /\ probe.input.trace[1].op = "add_arc"
    /\ probe.input.trace[1].title = MAIN_PLOT

\* and go on with add_turning_point(targetNode='ac1',
\* title='Inciting Incident')
AfterIncitingIncident ==
    /\ AfterMainPlot
    /\ Len(probe.input.trace) >= 2
    /\ probe.input.trace[2].op = "add_turning_point"
    /\ probe.input.trace[2].target = ac1
    /\ probe.input.trace[2].title = INCITING_INCIDENT

\* and then save the project and reload it
AfterSaveAndReload ==
    /\ AfterIncitingIncident
    /\ Len(probe.input.trace) = 4
    /\ probe.input.trace[3].op = "save_project"
    /\ probe.input.trace[4].op = "reload_project"

Deleting(pc, elemId, pending) ==
    [kind |-> "delete_element", input |-> elemId,
     output |-> [pc |-> pc, pending |-> pending], done |-> pc = "idle"]

NotDeleting == Deleting("idle", EMPTY, <<>>)

cascade_frame == UNCHANGED <<characters, books, issued, prjFile, clients,
                             refreshed, unhooked, described, disk>>

\* del self.story.arcs[elemId]
cascade_begin_arcs(elemId) == arcs \ {elemId}

cascade_begin(elemId) ==
    /\ probe = NotDeleting
    /\ elemId \in arcs
    /\ arcs' = cascade_begin_arcs(elemId)
    /\ probe' = Deleting("children", elemId, <<>>)
    /\ last' = Call("delete_element", elemId, EMPTY, EMPTY)
    /\ UNCHANGED <<tree, turningPoints, isModified>>
    /\ cascade_frame

\* for tpId in self.tree.get_children(elemId)
cascade_children ==
    LET pending == get_children(tree, probe.input)
    IN  /\ probe.output.pc = "children"
        /\ probe' = Deleting(IF pending = <<>> THEN "arc" ELSE "loop",
                             probe.input, pending)
        /\ UNCHANGED <<tree, arcs, turningPoints, isModified, last>>
        /\ cascade_frame

\* del self.story.turningPoints[tpId], a KeyError for an ID that is not
\* in the collection
cascade_del_point ==
    LET tpId == Head(probe.output.pending)
    IN  /\ probe.output.pc = "loop"
        /\ IF tpId \in DOMAIN turningPoints
           THEN /\ turningPoints' = del(turningPoints, tpId)
                /\ probe' = Deleting("tree", probe.input, probe.output.pending)
                /\ UNCHANGED last
           ELSE /\ probe' = NotDeleting
                /\ last' = Call("delete_element", probe.input, EMPTY, ERROR)
                /\ UNCHANGED turningPoints
        /\ UNCHANGED <<tree, arcs, isModified>>
        /\ cascade_frame

\* self.tree.delete(tpId)
cascade_delete_point ==
    LET tpId == Head(probe.output.pending)
        rest == Tail(probe.output.pending)
    IN  /\ probe.output.pc = "tree"
        /\ tree' = tree_delete(tree, tpId)
        /\ isModified' = TRUE
        /\ probe' = Deleting(IF rest = <<>> THEN "arc" ELSE "loop",
                             probe.input, rest)
        /\ UNCHANGED <<arcs, turningPoints, last>>
        /\ cascade_frame

\* self.tree.delete(elemId), and the call returns
cascade_delete_arc ==
    /\ probe.output.pc = "arc"
    /\ tree' = tree_delete(tree, probe.input)
    /\ isModified' = TRUE
    /\ probe' = NotDeleting
    /\ last' = Call("delete_element", probe.input, EMPTY, NONE)
    /\ UNCHANGED <<arcs, turningPoints>>
    /\ cascade_frame

\* a call that runs between two deletions
between_deletions(operation) ==
    /\ probe = NotDeleting
    /\ operation
    /\ UNCHANGED <<issued, prjFile, clients, refreshed, unhooked, described,
                   disk, probe>>

InitCascade ==
    \E doc \in Documents :
        LET st == read(doc)
        IN  /\ tree = st.tree
            /\ arcs = st.arcs
            /\ turningPoints = st.turningPoints
            /\ characters = st.characters
            /\ books = st.books
            /\ isModified = FALSE
            /\ issued = {}
            /\ last = Call("open_project", EMPTY, EMPTY, NONE)
            /\ prjFile = Named
            /\ clients = <<>>
            /\ refreshed = Refreshed(0)
            /\ unhooked = {}
            /\ described = {}
            /\ disk = NoDisk
            /\ probe = NotDeleting

NextCascade ==
    \/ \E elemId \in arcs : cascade_begin(elemId)
    \/ cascade_children
    \/ cascade_del_point
    \/ cascade_delete_point
    \/ cascade_delete_arc
    \/ PlotCount < MaxPlot /\ between_deletions(add_arc(EMPTY))
    \/ \E targetNode \in arcs \cup DOMAIN turningPoints :
           PlotCount < MaxPlot /\ between_deletions(add_turning_point(targetNode))
    \/ \E elemId \in DOMAIN turningPoints :
           between_deletions(delete_turning_point(elemId))

SpecCascade == InitCascade /\ [][NextCascade]_vars

\* C30: while delete_element removes an arc, the turning points of the arc
\* leave the collection before the arc does: in no state, the intermediate
\* ones included, is there a turning point in the collection whose arc, its
\* parent in the tree, is not in the collection of the arcs
C30_PointsRemovedBeforeArc ==
    \A tpId \in DOMAIN turningPoints :
        tree_exists(tree, tpId) => tree_parent(tree, tpId) \in arcs

\* ------------------------------------------------------------------------
\* SlTree, the tree substitute of sl_tree.py: the child lists of the three
\* roots (roots) and the child lists of the arcs (srtTurningPoints), a
\* dictionary that has a key for every ID appended under the arc root
\* ------------------------------------------------------------------------
\* the most entries the child lists hold together
MaxIndexed == 3

SlTree_init ==
    [roots |-> [r \in Roots |-> <<>>], srtTurningPoints |-> [a \in {} |-> <<>>]]

\* d[k] = v
setitem(d, k, v) == [x \in DOMAIN d \cup {k} |-> IF x = k THEN v ELSE d[x]]

\* list.insert(index, x) for an int that is not negative; the string
\* 'end' is no int: a TypeError
list_insert_raises(index) == index = END

list_insert(s, index, x) ==
    LET k == IF index > Len(s) THEN Len(s) ELSE index
    IN  SubSeq(s, 1, k) \o <<x>> \o SubSeq(s, k + 1, Len(s))

\* what a call of SlTree leaves: the index, and the exception it raised
TreeResult(t, raised) == [t |-> t, raised |-> raised]

\* SlTree.append: under a root, under an arc (a bare except makes the list
\* of an arc without key), nothing for any other parent
SlTree_append(t, parent, iid) ==
    IF parent \in Roots
    THEN LET t1 == [t EXCEPT !.roots[parent] = Append(@, iid)]
         IN  TreeResult(IF parent = AC_ROOT
                        THEN [t1 EXCEPT !.srtTurningPoints = setitem(@, iid, <<>>)]
                        ELSE t1,
                        NoException)
    ELSE IF startswith(parent, ARC_PREFIX)
    THEN TreeResult([t EXCEPT !.srtTurningPoints =
                        setitem(@, parent,
                                IF parent \in DOMAIN @ THEN Append(@[parent], iid)
                                ELSE <<iid>>)],
                    NoException)
    ELSE TreeResult(t, NoException)

\* SlTree.insert: list.insert under a root; under an arc the call
\* self.srtTurningPoints.insert(index, iid) of a dict, whose AttributeError
\* the bare except answers with the list [iid]
SlTree_insert(t, parent, index, iid) ==
    IF parent \in Roots
    THEN IF list_insert_raises(index) THEN TreeResult(t, "TypeError")
         ELSE LET t1 == [t EXCEPT !.roots[parent] = list_insert(@, index, iid)]
              IN  TreeResult(IF parent = AC_ROOT
                             THEN [t1 EXCEPT !.srtTurningPoints = setitem(@, iid, <<>>)]
                             ELSE t1,
                             NoException)
    ELSE IF startswith(parent, ARC_PREFIX)
    THEN TreeResult([t EXCEPT !.srtTurningPoints = setitem(@, parent, <<iid>>)],
                    NoException)
    ELSE TreeResult(t, NoException)

\* SlTree.delete_children
SlTree_delete_children(t, parent) ==
    IF parent \in Roots
    THEN LET t1 == [t EXCEPT !.roots[parent] = <<>>]
         IN  IF parent = AC_ROOT
             THEN [t1 EXCEPT !.srtTurningPoints = SlTree_init.srtTurningPoints]
             ELSE t1
    ELSE IF startswith(parent, ARC_PREFIX)
    THEN [t EXCEPT !.srtTurningPoints = setitem(@, parent, <<>>)]
    ELSE t

\* SlTree.get_children: None for an item that is no root and no arc
SlTree_get_children(t, item) ==
    IF item \in Roots THEN t.roots[item]
    ELSE IF startswith(item, ARC_PREFIX)
    THEN IF item \in DOMAIN t.srtTurningPoints THEN t.srtTurningPoints[item]
         ELSE <<>>
    ELSE NONE

\* variant: the roots keep their lists
SlTree_reset_arcs_only(t) ==
    [t EXCEPT !.srtTurningPoints = SlTree_init.srtTurningPoints]

\* SlTree.reset
SlTree_reset(t) == SlTree_init

\* the number of entries of all child lists
SlTree_size(t) ==
    LET RECURSIVE total(_, _)
        total(d, keys) ==
            IF keys = {} THEN 0
            ELSE LET k == CHOOSE x \in keys : TRUE
                 IN  Len(d[k]) + total(d, keys \ {k})
    IN  total(t.roots, Roots) + total(t.srtTurningPoints, DOMAIN t.srtTurningPoints)

\* the index after a call, the call and the exception it raised
Indexed(t, op, parent, index, iid, raised) ==
    [kind |-> "SlTree",
     input |-> [op |-> op, parent |-> parent, index |-> index, iid |-> iid],
     output |-> t, done |-> raised # NoException]

IndexParents == {AC_ROOT, CR_ROOT, ac1, ap1}

IndexIds == {ac1, ap1, ap2}

IndexPositions == {0, 1, END}

index_frame ==
    UNCHANGED <<tree, arcs, turningPoints, characters, books, isModified,
                issued, last, prjFile, clients, refreshed, unhooked,
                described, disk>>

index_append(parent, iid) ==
    LET r == SlTree_append(probe.output, parent, iid)
    IN  /\ SlTree_size(probe.output) < MaxIndexed
        /\ probe' = Indexed(r.t, "append", parent, END, iid, r.raised)
        /\ index_frame

index_insert(parent, index, iid) ==
    LET r == SlTree_insert(probe.output, parent, index, iid)
    IN  /\ SlTree_size(probe.output) < MaxIndexed
        /\ probe' = Indexed(r.t, "insert", parent, index, iid, r.raised)
        /\ index_frame

index_delete_children(parent) ==
    /\ probe' = Indexed(SlTree_delete_children(probe.output, parent),
                        "delete_children", parent, END, EMPTY, NoException)
    /\ index_frame

index_reset ==
    /\ probe' = Indexed(SlTree_reset(probe.output), "reset", EMPTY, END, EMPTY,
                        NoException)
    /\ index_frame

InitIndex ==
    /\ tree = tree_reset
    /\ arcs = {}
    /\ turningPoints = EmptyStory.turningPoints
    /\ characters = {}
    /\ books = {}
    /\ isModified = FALSE
    /\ issued = {}
    /\ last = Call("__init__", EMPTY, EMPTY, NONE)
    /\ prjFile = NONE
    /\ clients = <<>>
    /\ refreshed = Refreshed(0)
    /\ unhooked = {}
    /\ described = {}
    /\ disk = NoDisk
    /\ probe = Indexed(SlTree_init, "__init__", EMPTY, END, EMPTY, NoException)

NextIndex ==
    \/ \E parent \in IndexParents, iid \in IndexIds : index_append(parent, iid)
    \/ \E parent \in IndexParents, index \in IndexPositions, iid \in IndexIds :
           index_insert(parent, index, iid)
    \/ \E parent \in IndexParents : index_delete_children(parent)
    \/ index_reset

SpecIndex == InitIndex /\ [][NextIndex]_vars

\* the parents whose child lists get_children gives
Listed(t) == Roots \cup DOMAIN t.srtTurningPoints \cup {ac1, ac2}

\* C31: insert(parentId, index, id) under a root or an arc puts id at the
\* position index of the parent's child list, behind the last child for
\* 'end'; the children the list had keep their order, and no other child
\* list changes
C31_InsertAtPosition ==
    [][(/\ probe'.input.op = "insert"
        /\ \/ probe'.input.parent \in Roots
           \/ startswith(probe'.input.parent, ARC_PREFIX))
       => /\ ~probe'.done
          /\ SlTree_get_children(probe'.output, probe'.input.parent)
                = InsertAt(SlTree_get_children(probe.output, probe'.input.parent),
                           probe'.input.index, probe'.input.iid)
          /\ \A p \in Listed(probe.output) \ {probe'.input.parent} :
                 SlTree_get_children(probe'.output, p)
                    = SlTree_get_children(probe.output, p)]_vars

\* C32: append of a turning point under a root, or under a parent that is
\* no root and no arc, raises an error and leaves the index as it was
C32_AppendFailsFastOnWrongParent ==
    [][(/\ probe'.input.op = "append"
        /\ startswith(probe'.input.iid, ARC_POINT_PREFIX)
        /\ \/ probe'.input.parent \in Roots
           \/ ~startswith(probe'.input.parent, ARC_PREFIX))
       => /\ probe'.done
          /\ probe'.output = probe.output]_vars

caught_by_controller(exc) == exc = "Error"

\* whether close_project calls save_project
close_project_saves(m, doNotSave, saveChanges) ==
    m.isModified /\ ~doNotSave /\ saveChanges

\* close_project(doNotSave): an exception of the write that the handlers of
\* save_project do not catch leaves close_project before the model is
\* closed and the tree is reset
SlController_close_file(m, doNotSave, saveChanges, env, exc) ==
    LET ms == SlController_save_project(m, env)
    IN  IF /\ close_project_saves(m, doNotSave, saveChanges)
           /\ ms.writes # m.writes
           /\ exc # NoException
           /\ ~caught_by_controller(exc)
        THEN [ms EXCEPT !.raised = TRUE]
        ELSE SlController_close_project(m, doNotSave, saveChanges, env)

\* the answers and the outcome of a close_project, for the history
Closed(env, doNotSave, saveChanges, writes, exc) ==
    [kind |-> "close_project",
     input |-> [doNotSave |-> doNotSave, saveChanges |-> saveChanges,
                fileName |-> env.fileName, changedOnDisk |-> env.changedOnDisk,
                saveAnyway |-> env.saveAnyway],
     output |-> [writes |-> writes, exc |-> exc],
     done |-> TRUE]

close_file_on_disk(doNotSave, saveChanges, fileName, saveAnyway, failAt) ==
    LET env == Answers(Aggregate, disk, fileName, saveAnyway, failAt)
        exc == SlWorkFile_write(disk, DocumentOf(Aggregate), failAt).exc
        m == SlController_close_file(Aggregate, doNotSave, saveChanges, env, exc)
        d == apply_writes(disk, m.writes, failAt)
    IN  /\ prjFile # NONE
        /\ disk.mtime + 2 * Len(m.writes) <= MaxSaveClock
        /\ ApplyModel("close_project", EMPTY, m, TRUE)
        /\ disk' = IF m.prjFile = NONE THEN [d EXCEPT !.timestamp = NONE] ELSE d
        /\ probe' = Closed(env, doNotSave, saveChanges, m.writes,
                           IF m.writes = <<>> THEN NoException ELSE exc)

\* the places where a write of SpecClose fails: nowhere, where
\* _postprocess_xml_file raises Error, where ET.write raises OSError
CloseFailures == {"none", "post_write", "open"}

\* close_project in all its cases, between new_project, save_project and
\* added books
NextClose ==
    \/ \E doNotSave \in BOOLEAN, saveChanges \in BOOLEAN, fileName \in {EMPTY, PATH},
          saveAnyway \in BOOLEAN, failAt \in CloseFailures :
           close_file_on_disk(doNotSave, saveChanges, fileName, saveAnyway, failAt)
    \/ \E fileName \in {EMPTY, PATH} :
           prjFile = NONE /\ new_on_disk(FALSE, FALSE, fileName, "none")
    \/ \E fileName \in {EMPTY, PATH}, saveAnyway \in BOOLEAN, failAt \in Failures :
           save_on_disk(fileName, saveAnyway, failAt)
    \/ /\ prjFile # NONE
       /\ Cardinality(books) < MaxBooks
       /\ add_book(EMPTY)
       /\ UNCHANGED <<issued, session>>
    \/ disk.mtime < MaxSaveClock /\ external_touch

SpecClose == InitSave /\ [][NextClose]_vars

\* C34: close_project ends without project, with the flag False and the
\* tree reset, whether the project was unmodified, doNotSave was set, the
\* save was declined, or the save was accepted and went through, failed or
\* was given up.  For a modified project without doNotSave the accepted
\* save is attempted before the project is discarded
C34_CloseEndsWithoutProject ==
    [][(last'.op = "close_project" /\ prjFile # NONE)
       => /\ prjFile' = NONE
          /\ ~isModified'
          /\ Story' = EmptyStory
          /\ (/\ isModified
              /\ ~probe'.input.doNotSave
              /\ probe'.input.saveChanges
              /\ prjFile = Named
              /\ probe'.input.changedOnDisk => probe'.input.saveAnyway)
             => probe'.output.writes = <<DocumentOf(Story)>>]_vars

\* ------------------------------------------------------------------------
\* One project after the other: the controller's new_project, open_project,
\* close_project and save_project on the disk, with a Tree Index (SlTree)
\* that is filled and reset beside them
\* ------------------------------------------------------------------------
carry_new_project(saveChanges, fileName) ==
    LET env == Answers(Aggregate, disk, PATH, TRUE, "none")
        mc == IF new_project_closes(Aggregate)
              THEN SlController_close_project(Aggregate, FALSE, saveChanges, env)
              ELSE Aggregate
        d1 == [apply_writes(disk, mc.writes, "none") EXCEPT !.timestamp = NONE]
        envNew == Answers(SlModel_new_project(mc), d1, fileName, TRUE, "none")
        m == SlController_new_project(Aggregate, saveChanges, env, envNew)
    IN  /\ disk.mtime + 2 * Len(m.writes) <= MaxSaveClock
        /\ ApplyModel("new_project", EMPTY, m, TRUE)
        /\ disk' = apply_writes(d1, SubSeq(m.writes, Len(mc.writes) + 1, Len(m.writes)),
                                "none")
        /\ UNCHANGED probe

carry_open_project(saveChanges) ==
    LET env == Answers(Aggregate, disk, PATH, TRUE, "none")
        mc == IF prjFile # NONE
              THEN SlController_close_project(Aggregate, FALSE, saveChanges, env)
              ELSE Aggregate
        d1 == [apply_writes(disk, mc.writes, "none") EXCEPT !.timestamp = NONE]
        m == SlController_open_file(Aggregate, PATH, FALSE, saveChanges, env, d1.file)
    IN  /\ isfile(disk)
        /\ disk.mtime + 2 * Len(mc.writes) <= MaxSaveClock
        /\ ApplyModel("open_project", PATH, m, TRUE)
        /\ disk' = IF read_outcome(d1.file) = "ok" THEN read_timestamp(d1) ELSE d1
        /\ UNCHANGED probe

carry_close_project(saveChanges) ==
    LET env == Answers(Aggregate, disk, PATH, TRUE, "none")
        m == SlController_close_project(Aggregate, FALSE, saveChanges, env)
    IN  /\ prjFile # NONE
        /\ disk.mtime + 2 * Len(m.writes) <= MaxSaveClock
        /\ ApplyModel("close_project", EMPTY, m, TRUE)
        /\ disk' = [apply_writes(disk, m.writes, "none") EXCEPT !.timestamp = NONE]
        /\ UNCHANGED probe

carry_save_project ==
    LET env == Answers(Aggregate, disk, PATH, TRUE, "none")
        m == SlController_save_project(Aggregate, env)
    IN  /\ prjFile # NONE
        /\ disk.mtime + 2 * Len(m.writes) <= MaxSaveClock
        /\ ApplyModel("save_project", EMPTY, m, FALSE)
        /\ disk' = apply_writes(disk, m.writes, "none")
        /\ UNCHANGED probe

InitCarry ==
    /\ tree = EmptyStory.tree
    /\ arcs = EmptyStory.arcs
    /\ turningPoints = EmptyStory.turningPoints
    /\ characters = EmptyStory.characters
    /\ books = EmptyStory.books
    /\ isModified = FALSE
    /\ issued = {}
    /\ last = Call("__init__", EMPTY, EMPTY, NONE)
    /\ prjFile = NONE
    /\ clients = <<>>
    /\ refreshed = Refreshed(0)
    /\ unhooked = {}
    /\ described = {}
    /\ disk = NoDisk
    /\ probe = Indexed(SlTree_init, "__init__", EMPTY, END, EMPTY, NoException)

NextCarry ==
    \/ \E saveChanges \in BOOLEAN, fileName \in {EMPTY, PATH} :
           carry_new_project(saveChanges, fileName)
    \/ \E saveChanges \in BOOLEAN : carry_open_project(saveChanges)
    \/ \E saveChanges \in BOOLEAN : carry_close_project(saveChanges)
    \/ carry_save_project
    \/ EntityCount < MaxLife /\ Edit(add_arc(EMPTY))
    \/ EntityCount < MaxLife /\ Edit(add_book(EMPTY))
    \/ \E targetNode \in arcs :
           EntityCount <= MaxLife /\ Edit(add_turning_point(targetNode))
    \/ \E parent \in {AC_ROOT, ac1}, iid \in {ac1, ap1} :
           SlTree_size(probe.output) = 0 /\ index_append(parent, iid)
    \/ index_reset

SpecCarry == InitCarry /\ [][NextCarry]_vars

\* C35: after new_project the tree and the collections hold no entity, after
\* an open_project that succeeded they hold exactly what the file holds,
\* whatever the project before held; and after reset() of the Tree Index
\* get_children gives an empty sequence for every root and every arc ID
C35_NoCarryOver ==
    [][/\ (last'.op = "new_project" /\ probe' = probe)
          => Story' = EmptyStory
       /\ (last'.op = "open_project" /\ last'.result = Succeeded /\ probe' = probe)
          => /\ Story' = read(disk'.file.doc)
             /\ prjFile' = Named
             /\ ~isModified'
       /\ probe'.input.op = "reset"
          => \A item \in Roots \cup ArcIds :
                 SlTree_get_children(probe'.output, item) = <<>>]_vars

\* C35 witness: a file without entities was opened while a project with an
\* entity was open, and the Tree Index has been reset
C35_OpenedOverEarlierProject ==
    /\ last.op = "open_project"
    /\ last.result = Succeeded
    /\ last.before > 0
    /\ Story = EmptyStory
    /\ Story = read(disk.file.doc)
    /\ probe.input.op = "reset"

\* C36: a save_project, or the save_as it turns into, whose write fails
\* leaves the path of the project file, its timestamp and the modification
\* flag as they were
C36_FailedSaveChangesNothing ==
    [][(/\ last'.op = "save_project"
        /\ last'.result = Failed
        /\ probe'.output.saved > 0)
       => /\ prjFile' = prjFile
          /\ disk'.timestamp = disk.timestamp
          /\ isModified' = isModified]_vars

\* ------------------------------------------------------------------------
\* The three roots as arguments of add_*, delete_element and move_node.
\* The roots are the children of '', in the order of sl_tree.py
\* ------------------------------------------------------------------------
\* the most entities of a project whose roots are moved and deleted
MaxRooted == 2

ROOT_ORDER == <<AC_ROOT, BK_ROOT, CR_ROOT>>

Rooted(order) == [kind |-> "roots", input |-> NONE, output |-> order, done |-> FALSE]

\* variant: a root is moved like any other item, to the position index
\* among the children of ''
tree_move_root_to_position(order, item, index) ==
    InsertAt(Without(order, item), index, item)

\* tree.move(root, '', index): moving a root is no legal move, the request
\* is rejected and the roots stay as they are
tree_move_root(order, item, index) == order

\* move_node: two roots have the same prefix 'rt', so the first branch
\* hands them to tree.move with the parent '' and the position of the
\* target among the roots
rooted_move_node(node, targetNode) ==
    /\ move_node(node, targetNode)
    /\ probe' = IF node \in Roots /\ targetNode \in Roots
                THEN Rooted(tree_move_root(probe.output, node,
                                           IndexOf(probe.output, targetNode)))
                ELSE probe
    /\ UNCHANGED <<issued, prjFile, clients, refreshed, unhooked, described, disk>>

InitRooted ==
    /\ tree = tree_reset
    /\ arcs = {}
    /\ turningPoints = EmptyStory.turningPoints
    /\ characters = {}
    /\ books = {}
    /\ isModified = FALSE
    /\ issued = {}
    /\ last = Call("new_project", EMPTY, EMPTY, NONE)
    /\ prjFile = Unnamed
    /\ clients = <<>>
    /\ refreshed = Refreshed(0)
    /\ unhooked = {}
    /\ described = {}
    /\ disk = NoDisk
    /\ probe = Rooted(ROOT_ORDER)

\* every operation with the roots among its arguments
NextRooted ==
    \/ \E targetNode \in Nodes :
           /\ EntityCount < MaxRooted
           /\ add_arc(targetNode) /\ UNCHANGED <<issued, session>>
    \/ \E targetNode \in Nodes :
           /\ EntityCount < MaxRooted
           /\ add_character(targetNode) /\ UNCHANGED <<issued, session>>
    \/ \E targetNode \in Nodes :
           /\ EntityCount < MaxRooted
           /\ add_book(targetNode) /\ UNCHANGED <<issued, session>>
    \/ \E targetNode \in Nodes :
           /\ EntityCount < MaxRooted
           /\ add_turning_point(targetNode) /\ UNCHANGED <<issued, session>>
    \/ \E elemId \in Nodes \ {EMPTY} :
           delete_element(elemId) /\ UNCHANGED <<issued, session>>
    \/ \E node \in Nodes \ {EMPTY}, targetNode \in Nodes \ {EMPTY} :
           rooted_move_node(node, targetNode)

SpecRooted == InitRooted /\ [][NextRooted]_vars

MaxSelected == 3

\* the most IDs in the list
MaxSelection == 2

\* what the handler did: the IDs it asked about, the IDs it handed to
\* delete_element, and whether it ended with an exception
Selected(elements, answers, asked, called, raised) ==
    [elements |-> elements, answers |-> answers, asked |-> asked,
     called |-> called, raised |-> raised]

NotSelected == Selected(<<>>, <<>>, <<>>, <<>>, FALSE)

\* the lists of distinct IDs out of S
Selections(S) ==
    {el \in UNION {[1..n -> S] : n \in 1..MaxSelection} :
        \A i, j \in 1..Len(el) : el[i] = el[j] => i = j}

\* the story, the tree and the outcome while the loop runs
Selecting ==
    [tree |-> tree, arcs |-> arcs, turningPoints |-> turningPoints,
     characters |-> characters, books |-> books, isModified |-> isModified,
     asked |-> <<>>, called |-> <<>>, raised |-> FALSE, returned |-> FALSE]

\* SlModel.delete_element on the story and the tree of the loop
delete_element_selected(st, elemId) ==
    IF startswith(elemId, CHARACTER_PREFIX)
    THEN IF ~tree_exists(st.tree, elemId) THEN [st EXCEPT !.raised = TRUE]
         ELSE [st EXCEPT !.tree = tree_delete(@, elemId),
                         !.isModified = TRUE,
                         !.characters = @ \ {elemId},
                         !.raised = elemId \notin st.characters]
    ELSE IF startswith(elemId, BOOK_PREFIX)
    THEN LET tps == remove_book_references(st.turningPoints, elemId)
         IN  IF ~tree_exists(st.tree, elemId)
             THEN [st EXCEPT !.turningPoints = tps,
                             !.isModified = (@ \/ tps # st.turningPoints),
                             !.raised = TRUE]
             ELSE [st EXCEPT !.turningPoints = tps,
                             !.tree = tree_delete(@, elemId),
                             !.isModified = TRUE,
                             !.books = @ \ {elemId},
                             !.raised = elemId \notin st.books]
    ELSE IF startswith(elemId, ARC_PREFIX)
    THEN IF elemId \notin st.arcs THEN [st EXCEPT !.raised = TRUE]
         ELSE IF ~tree_exists(st.tree, elemId)
         THEN [st EXCEPT !.arcs = @ \ {elemId}, !.raised = TRUE]
         ELSE LET ch == delete_arc_children(get_children(st.tree, elemId),
                            [turningPoints |-> st.turningPoints,
                             tree |-> st.tree, ok |-> TRUE])
                  t == IF ch.ok THEN tree_delete(ch.tree, elemId) ELSE ch.tree
              IN  [st EXCEPT !.arcs = @ \ {elemId},
                             !.turningPoints = ch.turningPoints,
                             !.tree = t,
                             !.isModified = (@ \/ t # st.tree),
                             !.raised = ~ch.ok]
    ELSE IF startswith(elemId, ARC_POINT_PREFIX)
    THEN IF elemId \notin DOMAIN st.turningPoints THEN [st EXCEPT !.raised = TRUE]
         ELSE IF ~tree_exists(st.tree, elemId)
         THEN [st EXCEPT !.turningPoints = del(@, elemId), !.raised = TRUE]
         ELSE [st EXCEPT !.turningPoints = del(@, elemId),
                         !.tree = tree_delete(@, elemId),
                         !.isModified = TRUE]
    ELSE st

\* the entity the prompt names: the lookup of its title raises a KeyError
\* for an ID that is no key of its collection
candidate_found(st, elemId) ==
    IF startswith(elemId, CHARACTER_PREFIX) THEN elemId \in st.characters
    ELSE IF startswith(elemId, BOOK_PREFIX) THEN elemId \in st.books
    ELSE IF startswith(elemId, ARC_PREFIX) THEN elemId \in st.arcs
    ELSE elemId \in DOMAIN st.turningPoints

\* the IDs the loop goes on with: those of the four kinds
candidate_kind(elemId) ==
    \/ startswith(elemId, CHARACTER_PREFIX)
    \/ startswith(elemId, BOOK_PREFIX)
    \/ startswith(elemId, ARC_PREFIX)
    \/ startswith(elemId, ARC_POINT_PREFIX)

\* the loop: the title of the element is looked up, the user is asked, a
\* "no" ends the whole loop, a "yes" selects the neighbour in the view and
\* deletes the element
RECURSIVE delete_elements_loop(_, _, _)
delete_elements_loop(elements, answers, st) ==
    IF elements = <<>> \/ st.raised \/ st.returned THEN st
    ELSE LET elemId == Head(elements)
         IN  IF ~candidate_kind(elemId) THEN [st EXCEPT !.returned = TRUE]
             ELSE IF ~candidate_found(st, elemId) THEN [st EXCEPT !.raised = TRUE]
             ELSE IF ~Head(answers)
             THEN [st EXCEPT !.asked = Append(@, elemId), !.returned = TRUE]
             ELSE IF ~tree_exists(st.tree, elemId)
             THEN [st EXCEPT !.asked = Append(@, elemId), !.raised = TRUE]
             ELSE delete_elements_loop(Tail(elements), Tail(answers),
                      delete_element_selected(
                          [st EXCEPT !.asked = Append(@, elemId),
                                     !.called = Append(@, elemId)],
                          elemId))

\* delete_elements(elements=...) with the answers the user gives
delete_elements(elements, answers) ==
    LET st == delete_elements_loop(elements, answers, Selecting)
    IN  /\ prjFile # NONE
        /\ tree' = st.tree
        /\ arcs' = st.arcs
        /\ turningPoints' = st.turningPoints
        /\ characters' = st.characters
        /\ books' = st.books
        /\ isModified' = st.isModified
        /\ last' = Call("delete_elements", EMPTY, EMPTY,
                        IF st.raised THEN ERROR ELSE NONE)
        /\ probe' = Selected(elements, answers, st.asked, st.called, st.raised)
        /\ described' = described \cap (Keys' \cup {STORY})
        /\ unhooked' = unhooked \cap Keys'
        /\ UNCHANGED <<issued, prjFile, clients, refreshed, disk>>

InitSelect ==
    /\ tree = tree_reset
    /\ arcs = {}
    /\ turningPoints = EmptyStory.turningPoints
    /\ characters = {}
    /\ books = {}
    /\ isModified = FALSE
    /\ issued = {}
    /\ last = Call("new_project", EMPTY, EMPTY, NONE)
    /\ prjFile = Unnamed
    /\ clients = <<>>
    /\ refreshed = Refreshed(0)
    /\ unhooked = {}
    /\ described = {}
    /\ disk = NoDisk
    /\ probe = NotSelected

NextSelect ==
    \/ EntityCount < MaxSelected /\ Edit(add_arc(EMPTY))
    \/ EntityCount < MaxSelected /\ Edit(add_character(EMPTY))
    \/ EntityCount < MaxSelected /\ Edit(add_book(EMPTY))
    \/ \E targetNode \in arcs \cup DOMAIN turningPoints :
           EntityCount < MaxSelected /\ Edit(add_turning_point(targetNode))
    \/ \E elements \in Selections(Keys) :
           \E answers \in [1..Len(elements) -> BOOLEAN] :
               delete_elements(elements, answers)

SpecSelect == InitSelect /\ [][NextSelect]_vars

\* delete_element is called for an ID only after the prompt for that ID
\* was answered yes
CalledOnlyAfterYes(sel) ==
    /\ Len(sel.called) <= Len(sel.asked)
    /\ \A i \in 1..Len(sel.called) :
           /\ sel.called[i] = sel.asked[i]
           /\ sel.answers[i]

\* C38: delete_elements on a list of existing entity IDs, every prompt
\* answered yes, ends without an exception and leaves none of the listed
\* IDs in the collections or the tree, a turning point listed after its
\* own arc included; and no element is deleted without a yes for it
C38_ListDeletedOnYes ==
    [][last'.op = "delete_elements"
       => /\ CalledOnlyAfterYes(probe')
          /\ (\A i \in 1..Len(probe'.answers) : probe'.answers[i])
              => /\ ~probe'.raised
                 /\ \A i \in 1..Len(probe'.elements) :
                        /\ probe'.elements[i] \notin Keys'
                        /\ ~tree_exists(tree', probe'.elements[i])]_vars

====
